---- MODULE Spec2Model ----
(***************************************************************************)
(* SonicSV streaming CSV parser (src/sonicsv.h): csv_parse_buffer and the  *)
(* helpers it calls, as a state machine over the calls a driver makes.     *)
(* A byte is a short string; a buffer is a sequence of bytes; positions    *)
(* are 0-based offsets as in the C code (buf[pos + 1] is *pos).            *)
(***************************************************************************)
EXTENDS Integers, Sequences, FiniteSets, TLC

VARIABLES parser, chunks, phase, err, pool, simd, scan, mt, heap

vars == <<parser, chunks, phase, err, pool, simd, scan, mt, heap>>

\* the parser and its driver; the rest of the library
parser_vars == <<parser, chunks, phase, err>>

library_vars == <<pool, simd, scan, mt, heap>>

-----------------------------------------------------------------------------
(* Bytes and error codes                                                   *)

DELIM == ","
QUOTE == "Q"
LF == "LF"
CR == "CR"
SPACE == "SP"
TAB == "TAB"
NUL == "NUL"
GARBAGE == "?"

CSV_OK == "OK"
CSV_ERROR_INVALID_ARGS == "InvalidArguments"
CSV_ERROR_OUT_OF_MEMORY == "OutOfMemory"
CSV_ERROR_PARSE_ERROR == "ParseError"
CSV_ERROR_FIELD_TOO_LARGE == "FieldTooLarge"
CSV_ERROR_ROW_TOO_LARGE == "RowTooLarge"
CSV_ERROR_IO_ERROR == "IOError"

CSV_STATE_FIELD_START == "FIELD_START"
CSV_STATE_IN_QUOTED_FIELD == "IN_QUOTED_FIELD"
CSV_STATE_QUOTE_IN_QUOTED_FIELD == "QUOTE_IN_QUOTED_FIELD"

CSV_SIMD_NONE == 0
CSV_SIMD_SSE4_2 == 1
CSV_SIMD_AVX2 == 2

SONICSV_SIMD_ALIGN == 32
SIZEOF_CSV_ALLOC_HEADER == 40
SIZEOF_POINTER == 8
SONICSV_CACHE_LINE_SIZE == 64
CSV_INITIAL_FIELD_CAPACITY == 512
CSV_INITIAL_BUFFER_CAPACITY == 16384
CSV_FIELD_DATA_POOL_INITIAL == 32768
SIZEOF_CSV_PARSER == 512
SIZEOF_CSV_FIELD == 24
DEFAULT_MAX_FIELD_SIZE == 10485760
DEFAULT_MAX_ROW_SIZE == 104857600
DEFAULT_BUFFER_SIZE == 65536
MAX_FILENAME_LENGTH == 4096

-----------------------------------------------------------------------------
(* Bounds of the model                                                     *)

MaxLen == 4
MaxQuoted == 5
MaxLines == 7
MaxResetLen == 3
MaxResetCalls == 2
MaxEmptyLen == 3
MaxEmptyCalls == 2
MaxLimitLen == 4
MaxLimit == 2
MaxArgLen == 3
MaxArgCalls == 2
MaxStringLen == 2
MaxInstanceLen == 3
MaxOthers == 2
InstanceMemoryKb == 128
MaxBlankLen == 4
MaxFileLen == 6
MaxWorkers == 4
MaxHeapCalls == 4
MaxThreads == 3
MaxRun == 65
MaxInterns == 3
PoolCapacity == 4
Prefill == 11

-----------------------------------------------------------------------------
(* Sequence helpers                                                        *)

Max(a, b) == IF a >= b THEN a ELSE b

Min(a, b) == IF a <= b THEN a ELSE b

RECURSIVE SumSizes(_)
SumSizes(fs) == IF fs = <<>> THEN 0 ELSE fs[1].size + SumSizes(Tail(fs))

RECURSIVE Flatten(_)
Flatten(ss) == IF ss = <<>> THEN <<>> ELSE ss[1] \o Flatten(Tail(ss))

\* memcpy / memmove of data to offset off of a buffer whose content is mem
WriteAt(mem, off, data) ==
  [i \in 1..Max(Len(mem), off + Len(data)) |->
     IF i > off /\ i <= off + Len(data) THEN data[i - off] ELSE mem[i]]

-----------------------------------------------------------------------------
(* ensure_capacity_safe: the capacity after a request for req elements     *)

GrownCapacity(cap, req) ==
  LET new_cap == IF cap > 0 THEN (cap * 3) \div 2 + 1 ELSE 64
      want == Max(new_cap, req)
  IN ((want + SONICSV_CACHE_LINE_SIZE - 1) \div SONICSV_CACHE_LINE_SIZE)
       * SONICSV_CACHE_LINE_SIZE

ensure_capacity(cap, req) == IF cap >= req THEN cap ELSE GrownCapacity(cap, req)

\* The bytes the parser's own buffers hold: the parser structure, the field
\* table and the accumulator at their initial capacities (no input of the
\* sizes modelled here grows them), the unparsed buffer and the field data pool.
Allocated(p) ==
  SIZEOF_CSV_PARSER + CSV_INITIAL_FIELD_CAPACITY * SIZEOF_CSV_FIELD
    + CSV_INITIAL_BUFFER_CAPACITY + p.unparsed_capacity + p.field_data_pool_capacity

\* g_total_allocated, the counter all allocations of the process share:
\* allocated_elsewhere is what the rest of the process holds (other parser
\* instances, read buffers)
csv_get_allocated_memory(p) == Allocated(p) + p.allocated_elsewhere

\* "Prevent excessive memory usage": ensure_capacity_safe refuses the request
OutOfMemory(p, cap, req) ==
  LET new_cap == IF cap > 0 THEN (cap * 3) \div 2 + 1 ELSE 64
      new_size == Max(new_cap, req)
  IN /\ cap < req
     /\ p.options.max_memory_kb > 0
     /\ csv_get_allocated_memory(p) - cap + new_size > p.options.max_memory_kb * 1024

-----------------------------------------------------------------------------
(* The scan primitives                                                     *)

IsSpecial(c) == c \in {DELIM, QUOTE, LF, CR}

\* csv_scalar_find_char: smallest offset >= pos holding a target byte, -1 for NULL
csv_find_special_char(buf, pos) ==
  LET hits == {i \in pos..(Len(buf) - 1) : IsSpecial(buf[i + 1])}
  IN IF hits = {} THEN -1 ELSE CHOOSE i \in hits : \A j \in hits : i <= j

\* QuoteScan changed to stop at an LF as well
QuoteScanStopsAtLF(buf, pos) ==
  LET hits == {i \in pos..(Len(buf) - 1) : buf[i + 1] \in {QUOTE, LF}}
  IN IF hits = {} THEN Len(buf) ELSE CHOOSE i \in hits : \A j \in hits : i <= j

\* the quote scan of the in-quoted state: first quote at or after pos, else end
QuoteScan(buf, pos) ==
  LET hits == {i \in pos..(Len(buf) - 1) : buf[i + 1] = QUOTE}
  IN IF hits = {} THEN Len(buf) ELSE CHOOSE i \in hits : \A j \in hits : i <= j

\* SkipLF changed to leave the LF of a CR LF pair to the next iteration
NeverSkipLF(buf, pos) == pos

\* "if (pos < end && *pos == '\n') pos++": the position after a CR at pos - 1
SkipLF(buf, pos) == IF pos < Len(buf) /\ buf[pos + 1] = LF THEN pos + 1 ELSE pos

-----------------------------------------------------------------------------
(* Parser construction                                                     *)

Options(strict, ignore_empty, dq) ==
  [double_quote |-> dq, trim_whitespace |-> FALSE,
   ignore_empty_lines |-> ignore_empty, strict_mode |-> strict,
   max_field_size |-> DEFAULT_MAX_FIELD_SIZE, max_row_size |-> DEFAULT_MAX_ROW_SIZE,
   buffer_size |-> DEFAULT_BUFFER_SIZE, max_memory_kb |-> 0]

csv_parser_create(options) ==
  [options |-> options,
   state |-> CSV_STATE_FIELD_START,
   unparsed_buffer |-> <<>>, unparsed_size |-> 0, unparsed_capacity |-> 0,
   unparsed_gen |-> 0,
   fields |-> <<>>,
   field_buffer |-> <<>>,
   field_data_pool |-> <<>>, field_data_pool_capacity |-> CSV_FIELD_DATA_POOL_INITIAL,
   pool_gen |-> 0,
   total_bytes_processed |-> 0, total_rows_parsed |-> 0,
   total_fields_parsed |-> 0, errors_encountered |-> 0,
   current_row_start_offset |-> 0,
   calls |-> 0,
   rows |-> <<>>, errors |-> <<>>,
   allocated_elsewhere |-> 0]

-----------------------------------------------------------------------------
(* Field descriptors and what a row callback reads through them            *)
(*                                                                         *)
(* data is the pointer of csv_field_t: the buffer it points into (the      *)
(* caller's buffer of call number id, the unparsed buffer or the field     *)
(* data pool in their allocation number id, or the "" literal) and the     *)
(* offset. orig is the content the field had when it was recorded.         *)

Ref(kind, id, off) == [kind |-> kind, id |-> id, off |-> off]

\* the buffer csv_parse_buffer is tokenizing: where a pointer into it points
BufRef(p, cx, off) ==
  IF cx.from_unparsed THEN Ref("unparsed", p.unparsed_gen, off)
  ELSE Ref("caller", cx.call_id, off)

\* the memory behind the pointer is still the allocation it was taken from
Live(p, cx, f) ==
  CASE f.data.kind = "literal" -> TRUE
    [] f.data.kind = "caller" -> f.data.id = cx.call_id /\ ~cx.from_unparsed
    [] f.data.kind = "unparsed" -> f.data.id = p.unparsed_gen
    [] f.data.kind = "pool" -> f.data.id = p.pool_gen

\* the bytes a callback reads at data[0 .. size)
Deref(p, cx, f) ==
  LET mem == CASE f.data.kind = "literal" -> <<>>
               [] f.data.kind = "caller" -> cx.buf
               [] f.data.kind = "unparsed" -> p.unparsed_buffer
               [] f.data.kind = "pool" -> p.field_data_pool
  IN IF Live(p, cx, f)
     THEN SubSeq(mem, f.data.off + 1, f.data.off + f.size)
     ELSE [i \in 1..f.size |-> GARBAGE]

View(p, cx, f) ==
  [bytes |-> Deref(p, cx, f), size |-> f.size, quoted |-> f.quoted,
   live |-> Live(p, cx, f), orig |-> f.orig]

-----------------------------------------------------------------------------
(* report_error, add_field, finish_row, append_to_field_buffer             *)

Result(p, e) == [p |-> p, err |-> e]

report_error(p, e) ==
  [p EXCEPT !.errors_encountered = @ + 1,
            !.errors = Append(@, [kind |-> e, row |-> p.total_rows_parsed + 1])]

IsBlank(c) == c = SPACE \/ c = TAB

RECURSIVE LeadingBlanks(_)
LeadingBlanks(bytes) ==
  IF bytes # <<>> /\ IsBlank(bytes[1]) THEN 1 + LeadingBlanks(Tail(bytes)) ELSE 0

RECURSIVE TrailingBlanks(_)
TrailingBlanks(bytes) ==
  IF bytes # <<>> /\ IsBlank(bytes[Len(bytes)])
  THEN 1 + TrailingBlanks(SubSeq(bytes, 1, Len(bytes) - 1)) ELSE 0

\* StoreField changed to leave total_fields_parsed as it is
StoreFieldUncounted(p, data, bytes, q) ==
  [p EXCEPT !.fields = Append(@, [data |-> data, size |-> Len(bytes),
                                   quoted |-> q, orig |-> bytes])]

\* "csv_field_t *field = &p->fields[p->num_fields++]" and the statistics
StoreField(p, data, bytes, q) ==
  [p EXCEPT !.fields = Append(@, [data |-> data, size |-> Len(bytes),
                                   quoted |-> q, orig |-> bytes]),
            !.total_fields_parsed = @ + 1]

\* add_field(p, d, s, q): d points at bytes, s = Len(bytes)
add_field(p, d, bytes, q) ==
  LET s == Len(bytes) IN
  IF s > p.options.max_field_size
  THEN Result(report_error(p, CSV_ERROR_FIELD_TOO_LARGE), CSV_ERROR_FIELD_TOO_LARGE)
  ELSE IF q
  THEN LET required_size == Len(p.field_data_pool) + s + 1
           grows == required_size > p.field_data_pool_capacity
       IN
       IF OutOfMemory(p, p.field_data_pool_capacity, required_size)
       THEN Result(p, CSV_ERROR_OUT_OF_MEMORY)
       ELSE
       LET p1 == [p EXCEPT
                    !.field_data_pool_capacity = ensure_capacity(@, required_size),
                    !.pool_gen = IF grows THEN @ + 1 ELSE @,
                    !.field_data_pool = @ \o bytes \o <<NUL>>]
       IN Result(StoreField(p1, Ref("pool", p1.pool_gen, Len(p.field_data_pool)),
                            bytes, TRUE), CSV_OK)
  ELSE IF p.options.trim_whitespace /\ s > 0
  THEN LET lead == LeadingBlanks(bytes)
           rest == SubSeq(bytes, lead + 1, s)
           kept == SubSeq(rest, 1, Len(rest) - TrailingBlanks(rest))
       IN Result(StoreField(p, Ref(d.kind, d.id, d.off + lead), kept, FALSE), CSV_OK)
  ELSE Result(StoreField(p, d, bytes, FALSE), CSV_OK)

\* add_empty_field changed to record no field
DropEmptyField(p) == Result(p, CSV_OK)

\* add_field(p, "", 0, false)
add_empty_field(p) == add_field(p, Ref("literal", 0, 0), <<>>, FALSE)

\* add_field(p, p->field_buffer, p->field_buffer_pos, true)
add_quoted_field(p) == add_field(p, Ref("field_buffer", 0, 0), p.field_buffer, TRUE)

\* the empty-line test at the head of finish_row
SkipsRow(p) == Len(p.fields) = 0 /\ p.options.ignore_empty_lines

\* finish_row changed to deliver the row whatever its size
FinishRowUnlimited(p, cx) ==
  IF SkipsRow(p) THEN Result(p, CSV_OK)
  ELSE LET n == p.total_rows_parsed + 1
           row == [fields |-> [i \in 1..Len(p.fields) |-> View(p, cx, p.fields[i])],
                   row_number |-> n,
                   byte_offset |-> p.current_row_start_offset]
       IN Result([p EXCEPT !.total_rows_parsed = n,
                           !.rows = Append(@, row),
                           !.fields = <<>>], CSV_OK)

finish_row(p, cx) ==
  IF SkipsRow(p) THEN Result(p, CSV_OK)
  ELSE IF SumSizes(p.fields) > p.options.max_row_size
  THEN Result(report_error(p, CSV_ERROR_ROW_TOO_LARGE), CSV_ERROR_ROW_TOO_LARGE)
  ELSE LET n == p.total_rows_parsed + 1
           row == [fields |-> [i \in 1..Len(p.fields) |-> View(p, cx, p.fields[i])],
                   row_number |-> n,
                   byte_offset |-> p.current_row_start_offset]
       IN Result([p EXCEPT !.total_rows_parsed = n,
                           !.rows = Append(@, row),
                           !.fields = <<>>], CSV_OK)

\* append_to_field_buffer changed to append whatever the length
AppendUnlimited(p, bytes) ==
  Result([p EXCEPT !.field_buffer = @ \o bytes], CSV_OK)

\* append_to_field_buffer: no report_error on its error return
append_to_field_buffer(p, bytes) ==
  IF Len(p.field_buffer) + Len(bytes) > p.options.max_field_size
  THEN Result(p, CSV_ERROR_FIELD_TOO_LARGE)
  ELSE Result([p EXCEPT !.field_buffer = @ \o bytes], CSV_OK)

-----------------------------------------------------------------------------
(* csv_parse_buffer                                                        *)
(*                                                                         *)
(* cx is the call's frame: buf (the caller's chunk, or the unparsed buffer *)
(* with the chunk appended), from_unparsed (buf == p->unparsed_buffer),    *)
(* call_id, is_final and obp (original_bytes_processed). A step of the     *)
(* tokenizing loop yields the parser, the cursor, err and ret (the         *)
(* function returned from inside the loop).                                *)

Out(p, pos, e) == [p |-> p, pos |-> pos, err |-> e, ret |-> FALSE]

\* Suspend changed to count the bytes it carries over as processed
SuspendCountsCarryover(p, cx, start) ==
  LET remaining == SubSeq(cx.buf, start + 1, Len(cx.buf))
      grows == ~cx.from_unparsed /\ p.unparsed_capacity < Len(remaining)
      p1 == [p EXCEPT
               !.unparsed_capacity =
                  IF cx.from_unparsed THEN @ ELSE ensure_capacity(@, Len(remaining)),
               !.unparsed_gen = IF grows THEN @ + 1 ELSE @,
               !.unparsed_buffer = WriteAt(@, 0, remaining),
               !.unparsed_size = Len(remaining),
               !.total_bytes_processed = cx.obp + Len(cx.buf)]
  IN IF ~cx.from_unparsed /\ OutOfMemory(p, p.unparsed_capacity, Len(remaining))
     THEN [p |-> p, pos |-> start, err |-> CSV_ERROR_OUT_OF_MEMORY, ret |-> TRUE]
     ELSE [p |-> p1, pos |-> start, err |-> CSV_OK, ret |-> TRUE]

\* "Need more data - save state": the tail from start goes to the unparsed buffer
Suspend(p, cx, start) ==
  LET remaining == SubSeq(cx.buf, start + 1, Len(cx.buf))
      grows == ~cx.from_unparsed /\ p.unparsed_capacity < Len(remaining)
      p1 == [p EXCEPT
               !.unparsed_capacity =
                  IF cx.from_unparsed THEN @ ELSE ensure_capacity(@, Len(remaining)),
               !.unparsed_gen = IF grows THEN @ + 1 ELSE @,
               !.unparsed_buffer = WriteAt(@, 0, remaining),
               !.unparsed_size = Len(remaining),
               !.total_bytes_processed = cx.obp + start]
  IN IF ~cx.from_unparsed /\ OutOfMemory(p, p.unparsed_capacity, Len(remaining))
     THEN [p |-> p, pos |-> start, err |-> CSV_ERROR_OUT_OF_MEMORY, ret |-> TRUE]
     ELSE [p |-> p1, pos |-> start, err |-> CSV_OK, ret |-> TRUE]

\* EndRow changed to count the row's start from the start of this buffer
EndRowOffsetInBuffer(p, cx, at, next, next_state) ==
  LET fr == finish_row(p, cx) IN
  IF fr.err # CSV_OK THEN Out(fr.p, at, fr.err)
  ELSE Out([fr.p EXCEPT !.state = next_state,
                        !.current_row_start_offset = next], next, CSV_OK)

\* finish_row, then "p->current_row_start_offset = original_bytes_processed + next";
\* at is where the cursor stands when finish_row is called, next the row's end
EndRow(p, cx, at, next, next_state) ==
  LET fr == finish_row(p, cx) IN
  IF fr.err # CSV_OK THEN Out(fr.p, at, fr.err)
  ELSE Out([fr.p EXCEPT !.state = next_state,
                        !.current_row_start_offset = cx.obp + next], next, CSV_OK)

\* QuoteInUnquotedIsError changed to refuse the quote in non-strict mode too
QuoteInUnquotedAlwaysError(p) == TRUE

\* QuoteInUnquotedIsError changed to accept the quote in strict mode too
QuoteInUnquotedNeverError(p) == FALSE

\* "else if (c == quote_char && p->options.strict_mode)", c being the quote
QuoteInUnquotedIsError(p) == p.options.strict_mode

\* case CSV_STATE_FIELD_START, c an ordinary byte: the unquoted field at pos
UnquotedField(p, cx, pos) ==
  LET buf == cx.buf
      end == Len(buf)
      field_start == pos
      res == csv_find_special_char(buf, pos)
  IN IF res = -1
     THEN IF cx.is_final
          THEN LET af == add_field(p, BufRef(p, cx, field_start),
                                   SubSeq(buf, field_start + 1, end), FALSE)
               IN IF af.err # CSV_OK THEN Out(af.p, pos, af.err)
                  ELSE LET fr == finish_row(af.p, cx) IN Out(fr.p, end, fr.err)
          ELSE Suspend(p, cx, field_start)
     ELSE LET af == add_field(p, BufRef(p, cx, field_start),
                              SubSeq(buf, field_start + 1, res), FALSE)
              c == buf[res + 1]
          IN IF af.err # CSV_OK THEN Out(af.p, res, af.err)
             ELSE IF c = DELIM THEN Out(af.p, res + 1, CSV_OK)
             ELSE IF c = LF THEN EndRow(af.p, cx, res + 1, res + 1, af.p.state)
             ELSE IF c = CR
             THEN EndRow(af.p, cx, SkipLF(buf, res + 1), SkipLF(buf, res + 1), af.p.state)
             ELSE IF QuoteInUnquotedIsError(p)
             THEN Out(report_error(af.p, CSV_ERROR_PARSE_ERROR), res,
                      CSV_ERROR_PARSE_ERROR)
             ELSE Out(af.p, res, CSV_OK)

\* StepFieldStart changed to enter the quoted field without passing the quote
StepFieldStartKeepsCursor(p, cx, pos) ==
  LET buf == cx.buf
      c == buf[pos + 1]
  IN IF ~IsSpecial(c) THEN UnquotedField(p, cx, pos)
     ELSE IF c = QUOTE
     THEN Out([p EXCEPT !.state = CSV_STATE_IN_QUOTED_FIELD, !.field_buffer = <<>>],
              pos, CSV_OK)
     ELSE LET af == add_empty_field(p) IN
          IF af.err # CSV_OK THEN Out(af.p, pos, af.err)
          ELSE IF c = DELIM THEN Out(af.p, pos + 1, CSV_OK)
          ELSE IF c = LF THEN EndRow(af.p, cx, pos, pos + 1, af.p.state)
          ELSE EndRow(af.p, cx, SkipLF(buf, pos + 1), SkipLF(buf, pos + 1), af.p.state)

\* case CSV_STATE_FIELD_START
StepFieldStart(p, cx, pos) ==
  LET buf == cx.buf
      c == buf[pos + 1]
  IN IF ~IsSpecial(c) THEN UnquotedField(p, cx, pos)
     ELSE IF c = QUOTE
     THEN Out([p EXCEPT !.state = CSV_STATE_IN_QUOTED_FIELD, !.field_buffer = <<>>],
              pos + 1, CSV_OK)
     ELSE LET af == add_empty_field(p) IN
          IF af.err # CSV_OK THEN Out(af.p, pos, af.err)
          ELSE IF c = DELIM THEN Out(af.p, pos + 1, CSV_OK)
          ELSE IF c = LF THEN EndRow(af.p, cx, pos, pos + 1, af.p.state)
          ELSE EndRow(af.p, cx, SkipLF(buf, pos + 1), SkipLF(buf, pos + 1), af.p.state)

\* "Found closing quote": pos is the byte after the quote
AfterQuote(p, cx, pos) ==
  IF p.options.double_quote /\ pos < Len(cx.buf) /\ cx.buf[pos + 1] = QUOTE
  THEN LET ap == append_to_field_buffer(p, <<QUOTE>>) IN
       IF ap.err # CSV_OK THEN Out(ap.p, pos, ap.err) ELSE Out(ap.p, pos + 1, CSV_OK)
  ELSE Out([p EXCEPT !.state = CSV_STATE_QUOTE_IN_QUOTED_FIELD], pos, CSV_OK)

\* the end of the buffer met inside a quoted field
QuotedAtEnd(p, cx, chunk_start) ==
  IF cx.is_final
  THEN IF p.options.strict_mode
       THEN Out(report_error(p, CSV_ERROR_PARSE_ERROR), chunk_start,
                CSV_ERROR_PARSE_ERROR)
       ELSE LET af == add_quoted_field(p) IN
            IF af.err # CSV_OK THEN Out(af.p, chunk_start, af.err)
            ELSE LET fr == finish_row(af.p, cx) IN
                 Out(fr.p, IF fr.err = CSV_OK THEN Len(cx.buf) ELSE chunk_start, fr.err)
  ELSE Suspend(p, cx, chunk_start)

\* case CSV_STATE_IN_QUOTED_FIELD
StepInQuoted(p, cx, pos) ==
  LET buf == cx.buf
      chunk_start == pos
      quote_pos == QuoteScan(buf, pos)
      ap == IF quote_pos > chunk_start
            THEN append_to_field_buffer(p, SubSeq(buf, chunk_start + 1, quote_pos))
            ELSE Result(p, CSV_OK)
  IN IF ap.err # CSV_OK THEN Out(ap.p, pos, ap.err)
     ELSE IF quote_pos = Len(buf) THEN QuotedAtEnd(ap.p, cx, chunk_start)
     ELSE AfterQuote(ap.p, cx, quote_pos + 1)

\* StepQuoteInQuoted changed to drop the closing quote before a data byte
StepQuoteInQuotedDropsQuote(p, cx, pos) ==
  LET buf == cx.buf
      c == buf[pos + 1]
  IN IF c \in {DELIM, LF, CR}
     THEN LET af == add_quoted_field(p) IN
          IF af.err # CSV_OK THEN Out(af.p, pos, af.err)
          ELSE IF c = DELIM
          THEN Out([af.p EXCEPT !.state = CSV_STATE_FIELD_START], pos + 1, CSV_OK)
          ELSE IF c = LF THEN EndRow(af.p, cx, pos, pos + 1, CSV_STATE_FIELD_START)
          ELSE EndRow(af.p, cx, SkipLF(buf, pos + 1), SkipLF(buf, pos + 1),
                      CSV_STATE_FIELD_START)
     ELSE IF IsBlank(c) THEN Out(p, pos + 1, CSV_OK)
     ELSE IF p.options.strict_mode
     THEN Out(report_error(p, CSV_ERROR_PARSE_ERROR), pos, CSV_ERROR_PARSE_ERROR)
     ELSE LET a2 == append_to_field_buffer(p, <<c>>) IN
          IF a2.err # CSV_OK THEN Out(a2.p, pos, a2.err)
          ELSE Out([a2.p EXCEPT !.state = CSV_STATE_IN_QUOTED_FIELD],
                   pos + 1, CSV_OK)

\* case CSV_STATE_QUOTE_IN_QUOTED_FIELD
StepQuoteInQuoted(p, cx, pos) ==
  LET buf == cx.buf
      c == buf[pos + 1]
  IN IF c \in {DELIM, LF, CR}
     THEN LET af == add_quoted_field(p) IN
          IF af.err # CSV_OK THEN Out(af.p, pos, af.err)
          ELSE IF c = DELIM
          THEN Out([af.p EXCEPT !.state = CSV_STATE_FIELD_START], pos + 1, CSV_OK)
          ELSE IF c = LF THEN EndRow(af.p, cx, pos, pos + 1, CSV_STATE_FIELD_START)
          ELSE EndRow(af.p, cx, SkipLF(buf, pos + 1), SkipLF(buf, pos + 1),
                      CSV_STATE_FIELD_START)
     ELSE IF IsBlank(c) THEN Out(p, pos + 1, CSV_OK)
     ELSE IF p.options.strict_mode
     THEN Out(report_error(p, CSV_ERROR_PARSE_ERROR), pos, CSV_ERROR_PARSE_ERROR)
     ELSE LET a1 == append_to_field_buffer(p, <<QUOTE>>) IN
          IF a1.err # CSV_OK THEN Out(a1.p, pos, a1.err)
          ELSE LET a2 == append_to_field_buffer(a1.p, <<c>>) IN
               IF a2.err # CSV_OK THEN Out(a2.p, pos, a2.err)
               ELSE Out([a2.p EXCEPT !.state = CSV_STATE_IN_QUOTED_FIELD],
                        pos + 1, CSV_OK)

\* one iteration of "while (pos < end && err == CSV_OK) switch (p->state)"
Step(p, cx, pos) ==
  CASE p.state = CSV_STATE_FIELD_START -> StepFieldStart(p, cx, pos)
    [] p.state = CSV_STATE_IN_QUOTED_FIELD -> StepInQuoted(p, cx, pos)
    [] p.state = CSV_STATE_QUOTE_IN_QUOTED_FIELD -> StepQuoteInQuoted(p, cx, pos)

RECURSIVE Loop(_, _, _)

\* the loop condition after an iteration that yielded r
Again(r, cx) == IF r.err # CSV_OK \/ r.ret THEN r ELSE Loop(r.p, cx, r.pos)

Loop(p, cx, pos) ==
  IF pos < Len(cx.buf) THEN Again(Step(p, cx, pos), cx) ELSE Out(p, pos, CSV_OK)

\* "Handle unparsed data from previous call": the chunk joins the carryover
Prepend(p, chunk) ==
  IF p.unparsed_size > 0
  THEN LET req == p.unparsed_size + Len(chunk) IN
       [p EXCEPT !.unparsed_gen = IF p.unparsed_capacity < req THEN @ + 1 ELSE @,
                 !.unparsed_capacity = ensure_capacity(@, req),
                 !.unparsed_buffer = WriteAt(@, p.unparsed_size, chunk),
                 !.unparsed_size = req]
  ELSE p

\* FinalFlush changed to finish the pending row after every call
FlushAfterEveryCall(p, cx, e) ==
  IF e = CSV_OK /\ Len(p.fields) > 0 THEN finish_row(p, cx) ELSE Result(p, e)

\* "Handle final row when we reach end of input"
FinalFlush(p, cx, e) ==
  IF cx.is_final /\ e = CSV_OK /\ Len(p.fields) > 0
  THEN finish_row(p, cx) ELSE Result(p, e)

\* what csv_parse_buffer does once the loop has yielded r
AfterLoop(r, cx) ==
  IF r.ret THEN Result(r.p, r.err)
  ELSE LET fr == FinalFlush(r.p, cx, r.err) IN
       Result([fr.p EXCEPT
                 !.total_bytes_processed = cx.obp + r.pos,
                 !.unparsed_size =
                    IF cx.from_unparsed /\ r.pos = Len(cx.buf) THEN 0 ELSE @],
              fr.err)

csv_parse_buffer(p, chunk, is_final) ==
  LET carry == p.unparsed_size > 0
      p1 == [Prepend(p, chunk) EXCEPT !.calls = @ + 1]
      cx == [buf |-> IF carry THEN SubSeq(p1.unparsed_buffer, 1, p1.unparsed_size)
                     ELSE chunk,
             from_unparsed |-> carry,
             call_id |-> p1.calls,
             is_final |-> is_final,
             obp |-> p.total_bytes_processed]
  IN IF carry /\ OutOfMemory(p, p.unparsed_capacity, p.unparsed_size + Len(chunk))
     THEN Result([p EXCEPT !.calls = @ + 1], CSV_ERROR_OUT_OF_MEMORY)
     ELSE AfterLoop(Loop(p1, cx, 0), cx)

-----------------------------------------------------------------------------
(* The entry points and their argument checks                              *)
(*                                                                         *)
(* A null buffer or string is NULL, a null parser NoParser, a null FILE*   *)
(* NoStream and a null filename NoName. A stream is its content, whether   *)
(* its error indicator is set on entry (error) and whether its first read  *)
(* fails (fails). A filename is its length and the stream fopen yields, or *)
(* NoStream where fopen fails.                                             *)

NULL == <<"NULL">>

NoParser == [null |-> "parser"]

NoStream == [null |-> "stream"]

NoName == [null |-> "filename"]

\* csv_parse_buffer from its first line: the argument checks, then the
\* tokenizer. A size above SIZE_MAX / 2 is beyond the sizes modelled here.
csv_parse_buffer_checked(p, buf, sz, is_final) ==
  IF p = NoParser THEN Result(p, CSV_ERROR_INVALID_ARGS)
  ELSE IF sz > 0 /\ buf = NULL THEN Result(p, CSV_ERROR_INVALID_ARGS)
  ELSE IF p.options.max_field_size = 0 THEN Result(p, CSV_ERROR_INVALID_ARGS)
  ELSE IF p.options.max_row_size = 0 THEN Result(p, CSV_ERROR_INVALID_ARGS)
  ELSE csv_parse_buffer(p, IF sz = 0 THEN <<>> ELSE SubSeq(buf, 1, sz), is_final)

\* csv_parse_string changed to leave the length to csv_parse_buffer
ParseStringAnyLength(p, csv_line) ==
  IF p = NoParser THEN Result(p, CSV_ERROR_INVALID_ARGS)
  ELSE IF csv_line = NULL THEN Result(p, CSV_ERROR_INVALID_ARGS)
  ELSE csv_parse_buffer_checked(p, csv_line, Len(csv_line), TRUE)

csv_parse_string(p, csv_line) ==
  IF p = NoParser THEN Result(p, CSV_ERROR_INVALID_ARGS)
  ELSE IF csv_line = NULL THEN Result(p, CSV_ERROR_INVALID_ARGS)
  ELSE IF Len(csv_line) > p.options.max_row_size
       THEN Result(p, CSV_ERROR_ROW_TOO_LARGE)
  ELSE csv_parse_buffer_checked(p, csv_line, Len(csv_line), TRUE)

\* the fread loop of csv_parse_stream from offset pos of the stream: a read
\* shorter than buffer_size sets the end-of-file indicator
RECURSIVE ReadLoop(_, _, _)
ReadAgain(r, stream, pos) ==
  IF r.err # CSV_OK THEN r ELSE ReadLoop(r.p, stream, pos)

ReadLoop(p, stream, pos) ==
  LET bytes_read == Min(p.options.buffer_size, Len(stream.content) - pos) IN
  IF bytes_read = 0 THEN Result(p, CSV_OK)
  ELSE ReadAgain(csv_parse_buffer_checked(
                   p, SubSeq(stream.content, pos + 1, pos + bytes_read),
                   bytes_read, bytes_read < p.options.buffer_size),
                 stream, pos + bytes_read)

\* after the loop: the closing empty call, then the ferror check
StreamEnd(r, stream) ==
  IF stream.fails THEN Result(report_error(r.p, CSV_ERROR_IO_ERROR), CSV_ERROR_IO_ERROR)
  ELSE r

AfterRead(r, stream) ==
  IF r.err = CSV_OK
  THEN StreamEnd(csv_parse_buffer_checked(r.p, <<>>, 0, TRUE), stream)
  ELSE StreamEnd(r, stream)

\* the read buffer of csv_parse_stream is allocated for the time of the call
WithReadBuffer(p) == [p EXCEPT !.allocated_elsewhere = @ + p.options.buffer_size]

ReadBufferFreed(r) ==
  Result([r.p EXCEPT !.allocated_elsewhere = @ - r.p.options.buffer_size], r.err)

csv_parse_stream(p, stream) ==
  IF p = NoParser THEN Result(p, CSV_ERROR_INVALID_ARGS)
  ELSE IF stream = NoStream THEN Result(p, CSV_ERROR_INVALID_ARGS)
  ELSE IF stream.error THEN Result(p, CSV_ERROR_IO_ERROR)
  ELSE IF stream.fails
       THEN ReadBufferFreed(AfterRead(Result(WithReadBuffer(p), CSV_OK), stream))
  ELSE ReadBufferFreed(AfterRead(ReadLoop(WithReadBuffer(p), stream, 0), stream))

csv_parse_file(p, filename) ==
  IF p = NoParser THEN Result(p, CSV_ERROR_INVALID_ARGS)
  ELSE IF filename = NoName \/ filename.len = 0 THEN Result(p, CSV_ERROR_INVALID_ARGS)
  ELSE IF filename.len > MAX_FILENAME_LENGTH THEN Result(p, CSV_ERROR_INVALID_ARGS)
  ELSE IF filename.f = NoStream
       THEN Result(report_error(p, CSV_ERROR_IO_ERROR), CSV_ERROR_IO_ERROR)
  ELSE csv_parse_stream(p, filename.f)

-----------------------------------------------------------------------------
(* The driver: a stream fed chunk by chunk, the last chunk with is_final   *)
(*                                                                         *)
(* chunks is the sequence of buffers passed so far, err the last return    *)
(* code, phase "feeding" until an is_final call ("final") or an error      *)
(* return of an earlier call ("failed") ends the parse.                    *)

Fed == Flatten(chunks)

\* csv_default_options with strict_mode and ignore_empty_lines set either way
OptionSets == {Options(strict, ignore_empty, TRUE) : strict, ignore_empty \in BOOLEAN}

\* ... and double_quote set either way
QuotedOptionSets ==
  {Options(strict, ignore_empty, dq) : strict, ignore_empty, dq \in BOOLEAN}

\* no string pool has been created
NoPool == [null |-> "pool"]

\* no thread is in csv_simd_init: the feature mask as one thread left it
SimdIdle ==
  simd = [features |-> CSV_SIMD_NONE, initialized |-> TRUE, hardware |-> CSV_SIMD_NONE,
          detections |-> 1, writes |-> 1, threads |-> <<>>]

NoScan == [null |-> "scan"]

NoFile == [null |-> "file"]

NoHeap == [null |-> "heap"]

LibraryIdle ==
  /\ pool = NoPool
  /\ SimdIdle
  /\ scan = NoScan
  /\ mt = NoFile
  /\ heap = NoHeap

\* no parser exists
ParserIdle ==
  /\ parser = NoParser
  /\ chunks = <<>>
  /\ phase = "idle"
  /\ err = CSV_OK

Start(options) ==
  /\ parser \in {csv_parser_create(o) : o \in options}
  /\ chunks = <<>>
  /\ phase = "feeding"
  /\ err = CSV_OK
  /\ LibraryIdle

Init == Start(OptionSets)

InitQuoted == Start(QuotedOptionSets)

Call(chunk, is_final) ==
  \E r \in {csv_parse_buffer(parser, chunk, is_final)} :
    /\ parser' = r.p
    /\ err' = r.err
    /\ chunks' = Append(chunks, chunk)
    /\ phase' = IF is_final THEN "final"
                ELSE IF r.err # CSV_OK THEN "failed" ELSE "feeding"
    /\ UNCHANGED library_vars

\* the chunks over alphabet of min_size .. (max_len - bytes fed so far) bytes
NextChunks(alphabet, min_size, max_len) ==
  UNION {[1..k -> alphabet] : k \in min_size..(max_len - Len(Fed))}

\* Any byte of the grammar, any chunking.
Alphabet == {"a", DELIM, QUOTE, LF, CR}

\* csv_parse_buffer(p, chunk, size >= 1, false)
Feed ==
  /\ phase = "feeding"
  /\ \E chunk \in NextChunks(Alphabet, 1, MaxLen) : Call(chunk, FALSE)

\* csv_parse_buffer(p, chunk, size >= 0, true)
FeedFinal ==
  /\ phase = "feeding"
  /\ \E chunk \in NextChunks(Alphabet, 0, MaxLen) : Call(chunk, TRUE)

Next == Feed \/ FeedFinal

Spec == Init /\ [][Next]_vars

\* Quoted fields, longer streams, any chunking.
QuotedAlphabet == {"a", QUOTE, LF}

FeedQuoted ==
  /\ phase = "feeding"
  /\ \E chunk \in NextChunks(QuotedAlphabet, 1, MaxQuoted) : Call(chunk, FALSE)

FeedQuotedFinal ==
  /\ phase = "feeding"
  /\ \E chunk \in NextChunks(QuotedAlphabet, 0, MaxQuoted) : Call(chunk, TRUE)

NextQuoted == FeedQuoted \/ FeedQuotedFinal

SpecQuoted == InitQuoted /\ [][NextQuoted]_vars

\* Blanks around quoted fields, any chunking.
BlankAlphabet == {"a", SPACE, DELIM, QUOTE, LF}

FeedBlanks ==
  /\ phase = "feeding"
  /\ \E chunk \in NextChunks(BlankAlphabet, 1, MaxBlankLen) : Call(chunk, FALSE)

FeedBlanksFinal ==
  /\ phase = "feeding"
  /\ \E chunk \in NextChunks(BlankAlphabet, 0, MaxBlankLen) : Call(chunk, TRUE)

NextBlanks == FeedBlanks \/ FeedBlanksFinal

SpecBlanks == InitQuoted /\ [][NextBlanks]_vars

\* Lines of unquoted one-field rows in one buffer:
\* csv_parse_buffer(p, text, size, true) on a new parser.
LineAlphabet == {"a", LF, CR}

ParseLines ==
  /\ phase = "feeding"
  /\ \E chunk \in NextChunks(LineAlphabet, 0, MaxLines) : Call(chunk, TRUE)

NextLines == ParseLines

SpecLines == Init /\ [][NextLines]_vars

\* csv_parser_reset changed to leave the tokenizer state and field table
ResetKeepsTokenizer(p) ==
  [p EXCEPT !.field_buffer = <<>>,
            !.unparsed_size = 0,
            !.field_data_pool = <<>>,
            !.current_row_start_offset = 0,
            !.total_bytes_processed = 0, !.total_rows_parsed = 0,
            !.total_fields_parsed = 0, !.errors_encountered = 0,
            !.rows = <<>>, !.errors = <<>>]

\* csv_parser_reset changed to leave the row counter as it is
ResetKeepsRowCount(p) ==
  [p EXCEPT !.state = CSV_STATE_FIELD_START,
            !.fields = <<>>,
            !.field_buffer = <<>>,
            !.unparsed_size = 0,
            !.field_data_pool = <<>>,
            !.current_row_start_offset = 0,
            !.total_bytes_processed = 0,
            !.total_fields_parsed = 0, !.errors_encountered = 0,
            !.rows = <<>>, !.errors = <<>>]

\* csv_parser_reset: tokenizer state, field table, accumulator, carryover,
\* pool and statistics back to their initial values; the buffers stay allocated
csv_parser_reset(p) ==
  [p EXCEPT !.state = CSV_STATE_FIELD_START,
            !.fields = <<>>,
            !.field_buffer = <<>>,
            !.unparsed_size = 0,
            !.field_data_pool = <<>>,
            !.current_row_start_offset = 0,
            !.total_bytes_processed = 0, !.total_rows_parsed = 0,
            !.total_fields_parsed = 0, !.errors_encountered = 0,
            !.rows = <<>>, !.errors = <<>>]

\* Streams with a csv_parser_reset between them: the callbacks and the bytes
\* fed are those since the last reset.
ResetAlphabet == {"a", QUOTE, LF}

FeedBeforeReset ==
  /\ phase = "feeding"
  /\ \E chunk \in NextChunks(ResetAlphabet, 1, MaxResetLen) : Call(chunk, FALSE)

FeedFinalBeforeReset ==
  /\ phase = "feeding"
  /\ \E chunk \in NextChunks(ResetAlphabet, 0, MaxResetLen) : Call(chunk, TRUE)

Reset ==
  /\ chunks # <<>>
  /\ parser.calls <= MaxResetCalls
  /\ parser' = csv_parser_reset(parser)
  /\ chunks' = <<>>
  /\ phase' = "feeding"
  /\ err' = CSV_OK
  /\ UNCHANGED library_vars

NextReset == FeedBeforeReset \/ FeedFinalBeforeReset \/ Reset

SpecReset == Init /\ [][NextReset]_vars

\* Streams with csv_parse_buffer(p, buf, 0, false) calls among the chunks.
EmptyAlphabet == {"a", DELIM, QUOTE, LF}

EmptyCalls == Cardinality({i \in 1..Len(chunks) : chunks[i] = <<>>})

FeedSome ==
  /\ phase = "feeding"
  /\ \E chunk \in NextChunks(EmptyAlphabet, 1, MaxEmptyLen) : Call(chunk, FALSE)

FeedNothing ==
  /\ phase = "feeding"
  /\ EmptyCalls < MaxEmptyCalls
  /\ Call(<<>>, FALSE)

FeedLast ==
  /\ phase = "feeding"
  /\ \E chunk \in NextChunks(EmptyAlphabet, 0, MaxEmptyLen) : Call(chunk, TRUE)

NextEmpty == FeedSome \/ FeedNothing \/ FeedLast

SpecEmpty == Init /\ [][NextEmpty]_vars

\* Parsers created with small max_field_size and max_row_size.
LimitOptionSets ==
  {[Options(strict, FALSE, TRUE) EXCEPT !.max_field_size = mfs, !.max_row_size = mrs] :
     strict \in BOOLEAN, mfs \in 1..MaxLimit, mrs \in 1..MaxLimit}

InitLimits == Start(LimitOptionSets)

LimitAlphabet == {"a", DELIM, QUOTE, LF}

FeedLimited ==
  /\ phase = "feeding"
  /\ \E chunk \in NextChunks(LimitAlphabet, 1, MaxLimitLen) : Call(chunk, FALSE)

FeedLimitedFinal ==
  /\ phase = "feeding"
  /\ \E chunk \in NextChunks(LimitAlphabet, 0, MaxLimitLen) : Call(chunk, TRUE)

NextLimits == FeedLimited \/ FeedLimitedFinal

SpecLimits == InitLimits /\ [][NextLimits]_vars

\* Any entry point with any arguments, valid or not, in any parser state:
\* calls go on after an error return and after an is_final call. chunks
\* records the bytes each call passed, phase what the last call was
\* ("no parser" when it was passed a null parser).
ArgOptionSets ==
  {[Options(strict, FALSE, TRUE) EXCEPT !.max_field_size = mfs, !.max_row_size = mrs,
                                        !.buffer_size = 2] :
     strict \in BOOLEAN, mfs \in {0, 1, DEFAULT_MAX_FIELD_SIZE},
     mrs \in {0, 1, DEFAULT_MAX_ROW_SIZE}}

InitArgs == Start(ArgOptionSets)

ArgAlphabet == {"a", DELIM, QUOTE, LF}

\* the buffers and strings a call may pass, the null pointer among them
ArgBuffers == NextChunks(ArgAlphabet, 0, MaxArgLen) \cup {NULL}

Streams ==
  {[content |-> c, error |-> e, fails |-> f] :
     c \in NextChunks(ArgAlphabet, 0, MaxArgLen), e, f \in BOOLEAN}

Filenames ==
  {NoName} \cup
  {[len |-> n, f |-> f] : n \in {0, 8, MAX_FILENAME_LENGTH + 1},
                          f \in Streams \cup {NoStream}}

Passed(buf) == IF buf = NULL THEN <<>> ELSE buf

Returned(p, r, bytes, what) ==
  /\ parser' = IF p = NoParser THEN parser ELSE r.p
  /\ err' = r.err
  /\ chunks' = Append(chunks, bytes)
  /\ phase' = IF p = NoParser THEN "no parser" ELSE what
  /\ UNCHANGED library_vars

ParseBuffer ==
  /\ Len(chunks) < MaxArgCalls
  /\ \E p \in {parser, NoParser}, buf \in ArgBuffers, is_final \in BOOLEAN :
       \E sz \in {0, Len(buf)} :
         \E r \in {csv_parse_buffer_checked(p, buf, sz, is_final)} :
           Returned(p, r, IF sz = 0 THEN <<>> ELSE Passed(buf),
                    IF is_final THEN "final" ELSE "feeding")

ParseString ==
  /\ Len(chunks) < MaxArgCalls
  /\ \E p \in {parser, NoParser}, csv_line \in ArgBuffers :
       \E r \in {csv_parse_string(p, csv_line)} :
         Returned(p, r, Passed(csv_line), "string")

ParseStream ==
  /\ Len(chunks) < MaxArgCalls
  /\ \E p \in {parser, NoParser}, stream \in Streams \cup {NoStream} :
       \E r \in {csv_parse_stream(p, stream)} :
         Returned(p, r, IF stream = NoStream THEN <<>> ELSE stream.content, "stream")

ParseFile ==
  /\ Len(chunks) < MaxArgCalls
  /\ \E p \in {parser, NoParser}, filename \in Filenames :
       \E r \in {csv_parse_file(p, filename)} :
         Returned(p, r, IF filename = NoName \/ filename.f = NoStream
                        THEN <<>> ELSE filename.f.content, "file")

NextArgs == ParseBuffer \/ ParseString \/ ParseStream \/ ParseFile

SpecArgs == InitArgs /\ [][NextArgs]_vars

\* One parser with a memory limit in a process where other parser instances
\* are created and destroyed between its calls. Each of them holds what
\* csv_parser_create allocates.
InstanceOptionSets ==
  {[Options(strict, FALSE, TRUE) EXCEPT !.max_memory_kb = kb] :
     strict \in BOOLEAN, kb \in {0, InstanceMemoryKb}}

InitInstances == Start(InstanceOptionSets)

InstanceAlphabet == {"a", DELIM, QUOTE, LF}

OtherInstance == csv_parser_create(Options(FALSE, TRUE, TRUE))

OthersAlive == parser.allocated_elsewhere \div Allocated(OtherInstance)

FeedInstance ==
  /\ phase = "feeding"
  /\ \E chunk \in NextChunks(InstanceAlphabet, 1, MaxInstanceLen) : Call(chunk, FALSE)

FeedInstanceFinal ==
  /\ phase = "feeding"
  /\ \E chunk \in NextChunks(InstanceAlphabet, 0, MaxInstanceLen) : Call(chunk, TRUE)

\* csv_parser_create(NULL) elsewhere in the process
CreateOther ==
  /\ OthersAlive < MaxOthers
  /\ parser' = [parser EXCEPT !.allocated_elsewhere = @ + Allocated(OtherInstance)]
  /\ UNCHANGED <<chunks, phase, err>>
  /\ UNCHANGED library_vars

\* csv_parser_destroy of one of the other instances
DestroyOther ==
  /\ OthersAlive > 0
  /\ parser' = [parser EXCEPT !.allocated_elsewhere = @ - Allocated(OtherInstance)]
  /\ UNCHANGED <<chunks, phase, err>>
  /\ UNCHANGED library_vars

NextInstances == FeedInstance \/ FeedInstanceFinal \/ CreateOther \/ DestroyOther

SpecInstances == InitInstances /\ [][NextInstances]_vars

-----------------------------------------------------------------------------
(* The string pool                                                         *)
(*                                                                         *)
(* data is the first data_size bytes of pool->data, data_gen the number of *)
(* the allocation that holds them. A pointer into the byte storage is the  *)
(* allocation it was taken from and the offset. buckets is the open-       *)
(* addressing index, a function on 0 .. num_buckets - 1. interned logs the *)
(* intern calls since creation or the last clear, calls counts the calls   *)
(* on the pool.                                                            *)

\* the value of a byte
Code(c) ==
  CASE c = "a" -> 97 [] c = "b" -> 98 [] c = DELIM -> 44 [] c = QUOTE -> 34
    [] c = LF -> 10 [] c = CR -> 13 [] c = SPACE -> 32 [] c = TAB -> 9
    [] OTHER -> 0

\* x ^ y on n bits
RECURSIVE Xor(_, _, _)
Xor(x, y, n) ==
  IF n = 0 THEN 0
  ELSE (((x % 2) + (y % 2)) % 2) + 2 * Xor(x \div 2, y \div 2, n - 1)

\* a uint32_t as its two 16-bit halves; "hash ^= byte; hash *= 0x01000193"
FnvStep(h, c) ==
  LET lo == Xor(h.lo, Code(c), 16)
      t == lo * 403
  IN [hi |-> ((t \div 65536) + h.hi * 403 + lo * 256) % 65536, lo |-> t % 65536]

RECURSIVE FnvFrom(_, _)
FnvFrom(h, str) == IF str = <<>> THEN h ELSE FnvFrom(FnvStep(h, str[1]), Tail(str))

\* 0x811c9dc5
fnv1a_hash(str) == FnvFrom([hi |-> 33052, lo |-> 40389], str)

\* hash & (num_buckets - 1), num_buckets a power of two up to 2^16
BucketOf(hash, num_buckets) == hash.lo % num_buckets

RECURSIVE PowerOf2From(_, _)
PowerOf2From(k, n) == IF k >= n THEN k ELSE PowerOf2From(2 * k, n)

next_power_of_2(n) == IF n <= 1 THEN 2 ELSE PowerOf2From(1, n)

NoEntry == [null |-> "entry"]

NoString == [null |-> "string"]

\* "while (buckets[index].str) index = (index + 1) & (num_buckets - 1)"
RECURSIVE FreeBucket(_, _, _)
FreeBucket(buckets, index, num_buckets) ==
  IF buckets[index] = NoEntry THEN index
  ELSE FreeBucket(buckets, (index + 1) % num_buckets, num_buckets)

\* the loop of pool_resize over the old buckets from i on
RECURSIVE Rehash(_, _, _, _)
Rehash(new_buckets, old_buckets, i, new_num_buckets) ==
  IF i \notin DOMAIN old_buckets THEN new_buckets
  ELSE IF old_buckets[i] = NoEntry
  THEN Rehash(new_buckets, old_buckets, i + 1, new_num_buckets)
  ELSE LET index == FreeBucket(new_buckets,
                               BucketOf(old_buckets[i].hash, new_num_buckets),
                               new_num_buckets)
       IN Rehash([new_buckets EXCEPT ![index] = old_buckets[i]],
                 old_buckets, i + 1, new_num_buckets)

pool_resize(sp) ==
  LET new_num_buckets == next_power_of_2(sp.num_buckets * 2) IN
  [sp EXCEPT !.buckets = Rehash([i \in 0..(new_num_buckets - 1) |-> NoEntry],
                                sp.buckets, 0, new_num_buckets),
             !.num_buckets = new_num_buckets]

csv_string_pool_create(initial_capacity) ==
  [buckets |-> [i \in 0..15 |-> NoEntry], num_buckets |-> 16, num_items |-> 0,
   data |-> <<>>, data_size |-> 0,
   data_capacity |-> IF initial_capacity > 0 THEN initial_capacity ELSE 4096,
   data_gen |-> 0,
   interned |-> <<>>, calls |-> 0]

csv_string_pool_clear(sp) ==
  [sp EXCEPT !.buckets = [i \in 0..(sp.num_buckets - 1) |-> NoEntry],
             !.num_items = 0, !.data = <<>>, !.data_size = 0,
             !.interned = <<>>, !.calls = @ + 1]

\* the pointer points into the allocation that holds the bytes now
LiveString(sp, ptr) == ptr.gen = sp.data_gen

\* memcmp(buckets[index].str, str, length) == 0: a read through a pointer
\* into a freed allocation finds the old bytes or others (freed_equal)
SameBytes(sp, entry, str, freed_equal) ==
  IF str = <<>> THEN TRUE
  ELSE IF LiveString(sp, entry.str)
  THEN SubSeq(sp.data, entry.str.off + 1, entry.str.off + entry.length) = str
  ELSE freed_equal

\* the probe loop of csv_string_pool_intern from index on
RECURSIVE Probe(_, _, _, _, _)
Probe(sp, hash, str, index, freed_equal) ==
  LET entry == sp.buckets[index] IN
  IF entry = NoEntry THEN [found |-> FALSE, index |-> index]
  ELSE IF entry.hash = hash /\ entry.length = Len(str)
          /\ SameBytes(sp, entry, str, freed_equal)
  THEN [found |-> TRUE, index |-> index]
  ELSE Probe(sp, hash, str, (index + 1) % sp.num_buckets, freed_equal)

\* the interned copy is stored at the end of the byte storage
StoreString(sp, hash, str, index) ==
  LET req == sp.data_size + Len(str) + 1
      gen == IF sp.data_capacity < req THEN sp.data_gen + 1 ELSE sp.data_gen
      new_str == [gen |-> gen, off |-> sp.data_size]
  IN [sp |-> [sp EXCEPT !.data_capacity = ensure_capacity(@, req),
                        !.data_gen = gen,
                        !.data = @ \o str \o <<NUL>>,
                        !.data_size = req,
                        !.buckets[index] = [str |-> new_str, hash |-> hash,
                                            length |-> Len(str)],
                        !.num_items = @ + 1],
      ret |-> new_str]

Interned(sp, hash, str, at) ==
  IF at.found THEN [sp |-> sp, ret |-> sp.buckets[at.index].str]
  ELSE StoreString(sp, hash, str, at.index)

Logged(r, str) ==
  [sp |-> [r.sp EXCEPT !.interned = Append(@, [bytes |-> str, ptr |-> r.ret]),
                       !.calls = @ + 1],
   ret |-> r.ret]

InternIn(sp, str, freed_equal) ==
  Logged(Interned(sp, fnv1a_hash(str), str,
                  Probe(sp, fnv1a_hash(str), str,
                        BucketOf(fnv1a_hash(str), sp.num_buckets), freed_equal)),
         str)

csv_string_pool_intern(sp, str, freed_equal) ==
  IF sp = NoPool \/ str = NULL THEN [sp |-> sp, ret |-> NoString]
  ELSE IF sp.num_items * 4 >= sp.num_buckets * 3
  THEN InternIn(pool_resize(sp), str, freed_equal)
  ELSE InternIn(sp, str, freed_equal)

\* the strings over a and b of up to three bytes
PoolStrings ==
  << <<>>, <<"a">>, <<"b">>, <<"a", "a">>, <<"a", "b">>, <<"b", "a">>, <<"b", "b">>,
     <<"a", "a", "a">>, <<"a", "a", "b">>, <<"a", "b", "a">>, <<"a", "b", "b">>,
     <<"b", "a", "a">>, <<"b", "a", "b">>, <<"b", "b", "a">>, <<"b", "b", "b">> >>

\* the pool after interning the first n of them
RECURSIVE Filled(_, _)
Filled(sp, n) ==
  IF n = 0 THEN sp
  ELSE csv_string_pool_intern(Filled(sp, n - 1), PoolStrings[n], TRUE).sp

\* A pool of PoolCapacity bytes, a default pool, and a default pool that
\* holds Prefill strings: one more fills the index to three quarters.
InitPool ==
  /\ ParserIdle
  /\ SimdIdle
  /\ scan = NoScan
  /\ mt = NoFile
  /\ heap = NoHeap
  /\ pool \in {csv_string_pool_create(PoolCapacity), csv_string_pool_create(0),
               [Filled(csv_string_pool_create(0), Prefill) EXCEPT !.calls = 0]}

Intern ==
  /\ pool.calls < MaxInterns
  /\ \E i \in DOMAIN PoolStrings, freed_equal \in BOOLEAN :
       pool' = csv_string_pool_intern(pool, PoolStrings[i], freed_equal).sp
  /\ UNCHANGED <<parser_vars, simd, scan, mt, heap>>

InternNull ==
  /\ pool.calls < MaxInterns
  /\ pool' = [csv_string_pool_intern(pool, NULL, TRUE).sp EXCEPT !.calls = @ + 1]
  /\ UNCHANGED <<parser_vars, simd, scan, mt, heap>>

Clear ==
  /\ pool.calls < MaxInterns
  /\ pool' = csv_string_pool_clear(pool)
  /\ UNCHANGED <<parser_vars, simd, scan, mt, heap>>

NextPool == Intern \/ InternNull \/ Clear

SpecPool == InitPool /\ [][NextPool]_vars

-----------------------------------------------------------------------------
(* The process-wide SIMD feature mask                                      *)
(*                                                                         *)
(* g_simd_features_atomic and g_simd_initialized_atomic are simd.features  *)
(* and simd.initialized; each atomic load or store is one step of a        *)
(* thread. A thread creates a parser (csv_parser_create ends with a call   *)
(* of csv_simd_init) and then scans with it, which fills the parser's      *)
(* cache of the mask. detections and writes count the runs of the feature  *)
(* detection and the stores to the mask.                                   *)

Threads == 1..MaxThreads

simd_others == <<parser_vars, pool, scan, mt, heap>>

\* what csv_detect_x86_features can return on the machines considered
HardwareFeatures ==
  {CSV_SIMD_NONE, CSV_SIMD_SSE4_2, CSV_SIMD_SSE4_2 + CSV_SIMD_AVX2}

NewThread ==
  [pc |-> "idle", caller |-> "none", features |-> CSV_SIMD_NONE,
   has_parser |-> FALSE, simd_cache_initialized |-> FALSE,
   simd_features_cache |-> CSV_SIMD_NONE]

InitSimd ==
  /\ ParserIdle
  /\ pool = NoPool
  /\ scan = NoScan
  /\ mt = NoFile
  /\ heap = NoHeap
  /\ \E h \in HardwareFeatures :
       simd = [features |-> CSV_SIMD_NONE, initialized |-> FALSE, hardware |-> h,
               detections |-> 0, writes |-> 0,
               threads |-> [t \in Threads |-> NewThread]]

At(t, pc) == simd.threads[t].pc = pc

\* csv_simd_init returns to its caller
Returned_csv_simd_init(th) ==
  IF th.caller = "csv_parser_create"
  THEN [th EXCEPT !.pc = "idle", !.has_parser = TRUE]
  ELSE [th EXCEPT !.pc = "cache"]

\* csv_parser_create up to its call of csv_simd_init
Create(t) ==
  /\ At(t, "idle")
  /\ ~simd.threads[t].has_parser
  /\ simd' = [simd EXCEPT !.threads[t].pc = "init",
                          !.threads[t].caller = "csv_parser_create"]
  /\ UNCHANGED simd_others

\* csv_find_special_char_with_parser on a parser whose cache is not filled:
\* the load of g_simd_initialized_atomic
Scan(t) ==
  /\ At(t, "idle")
  /\ simd.threads[t].has_parser
  /\ ~simd.threads[t].simd_cache_initialized
  /\ simd' = [simd EXCEPT
                !.threads[t].pc = IF simd.initialized THEN "cache" ELSE "init",
                !.threads[t].caller = "csv_find_special_char_with_parser"]
  /\ UNCHANGED simd_others

\* csv_simd_init: the load of g_simd_initialized_atomic
InitLoad(t) ==
  /\ At(t, "init")
  /\ simd' = [simd EXCEPT
                !.threads[t] = IF simd.initialized THEN Returned_csv_simd_init(@)
                               ELSE [@ EXCEPT !.pc = "detect"]]
  /\ UNCHANGED simd_others

\* csv_simd_init: features = csv_detect_x86_features()
Detect(t) ==
  /\ At(t, "detect")
  /\ simd' = [simd EXCEPT !.threads[t].features = simd.hardware,
                          !.threads[t].pc = "store_features",
                          !.detections = @ + 1]
  /\ UNCHANGED simd_others

\* csv_simd_init: the store to g_simd_features_atomic
StoreFeatures(t) ==
  /\ At(t, "store_features")
  /\ simd' = [simd EXCEPT !.features = simd.threads[t].features,
                          !.writes = @ + 1,
                          !.threads[t].pc = "store_initialized"]
  /\ UNCHANGED simd_others

\* csv_simd_init: the store to g_simd_initialized_atomic, and the return
StoreInitialized(t) ==
  /\ At(t, "store_initialized")
  /\ simd' = [simd EXCEPT !.initialized = TRUE,
                          !.threads[t] = Returned_csv_simd_init(@)]
  /\ UNCHANGED simd_others

\* csv_find_special_char_with_parser: the mask goes to the parser's cache
CacheFeatures(t) ==
  /\ At(t, "cache")
  /\ simd' = [simd EXCEPT !.threads[t].simd_features_cache = simd.features,
                          !.threads[t].simd_cache_initialized = TRUE,
                          !.threads[t].pc = "idle"]
  /\ UNCHANGED simd_others

NextSimd ==
  \E t \in Threads :
    \/ Create(t)
    \/ Scan(t)
    \/ InitLoad(t)
    \/ Detect(t)
    \/ StoreFeatures(t)
    \/ StoreInitialized(t)
    \/ CacheFeatures(t)

SpecSimd == InitSimd /\ [][NextSimd]_vars

-----------------------------------------------------------------------------
(* The scan implementations                                                *)
(*                                                                         *)
(* d is the memory from the start of the run, s the run length; an index   *)
(* is 0-based as in C. A result is the pointer (pos, as the index in d, or *)
(* NullPos), the offset, and extent: one more than the highest index the   *)
(* call has read (0 when it read nothing). Memory past the bytes of d is   *)
(* read as GARBAGE.                                                        *)

NullPos == 0 - 1

ByteAt(d, i) == IF i < Len(d) THEN d[i + 1] ELSE GARBAGE

\* c == c1 || c == c2 || c == c3 || c == c4
IsTarget(c, cs) == c = cs[1] \/ c = cs[2] \/ c = cs[3] \/ c = cs[4]

RECURSIVE ScalarFrom(_, _, _, _, _)

\* the loop of csv_scalar_find_char(d + base, s, ...) from index i
ScalarFrom(d, base, s, cs, i) ==
  IF i < s
  THEN IF IsTarget(ByteAt(d, base + i), cs)
       THEN [pos |-> base + i, offset |-> i, extent |-> base + i + 1]
       ELSE ScalarFrom(d, base, s, cs, i + 1)
  ELSE [pos |-> NullPos, offset |-> s, extent |-> IF s = 0 THEN 0 ELSE base + s]

csv_scalar_find_char(d, base, s, cs) == ScalarFrom(d, base, s, cs, 0)

\* mask != 0: a byte of the w loaded from index i is a target
MaskNonZero(d, i, w, cs) == \E k \in 0..(w - 1) : IsTarget(ByteAt(d, i + k), cs)

\* __builtin_ctz(mask)
Ctz(d, i, w, cs) ==
  CHOOSE k \in 0..(w - 1) :
    /\ IsTarget(ByteAt(d, i + k), cs)
    /\ \A j \in 0..(k - 1) : ~IsTarget(ByteAt(d, i + j), cs)

\* the tail changed to keep the offset within the tail
TailOffsetWithinTail(tail, i, s) == tail

\* "Safe tail processing": the scalar result with its offset from d
TailResult(tail, i, s) ==
  [tail EXCEPT !.offset = IF tail.pos # NullPos THEN @ + i ELSE s]

RECURSIVE VectorFrom(_, _, _, _, _)

\* the loop over chunks of w bytes from index i, then the tail
VectorFrom(d, s, cs, w, i) ==
  IF i + w <= s /\ i <= s - w
  THEN IF MaskNonZero(d, i, w, cs) /\ i + Ctz(d, i, w, cs) < s
       THEN [pos |-> i + Ctz(d, i, w, cs), offset |-> i + Ctz(d, i, w, cs),
             extent |-> i + w]
       ELSE VectorFrom(d, s, cs, w, i + w)
  ELSE IF i < s
       THEN TailResult(csv_scalar_find_char(d, i, s - i, cs), i, s)
       ELSE [pos |-> NullPos, offset |-> s, extent |-> i]

\* a vector implementation with chunks of w bytes
VectorFind(d, s, cs, w) ==
  IF s < w THEN csv_scalar_find_char(d, 0, s, cs)
  ELSE IF s = 0 THEN [pos |-> NullPos, offset |-> s, extent |-> 0]
  ELSE VectorFrom(d, s, cs, w, 0)

csv_sse42_find_char(d, s, cs) == VectorFind(d, s, cs, 16)

csv_avx2_find_char(d, s, cs) == VectorFind(d, s, cs, 32)

\* the targets the tokenizer passes: delimiter, quote_char, LF, CR
Targets == <<DELIM, QUOTE, LF, CR>>

NoResult == [null |-> "result"]

\* s bytes "a" with the bytes of at (index :> byte) in their places
Run(s, at) == [i \in 1..s |-> IF (i - 1) \in DOMAIN at THEN at[i - 1] ELSE "a"]

\* the runs of s bytes with no target, with one target, and with a quote
\* before a delimiter that is the last byte
RunsOf(s) ==
  {Run(s, <<>>)}
  \cup {Run(s, i :> c) : i \in 0..(s - 1), c \in {DELIM, QUOTE, LF, CR}}
  \cup {Run(s, (i :> QUOTE) @@ ((s - 1) :> DELIM)) : i \in 0..(s - 1)}

InitScan ==
  /\ ParserIdle
  /\ pool = NoPool
  /\ SimdIdle
  /\ mt = NoFile
  /\ heap = NoHeap
  /\ \E s \in 0..MaxRun : \E d \in RunsOf(s) :
       scan = [d |-> d, s |-> s, scalar |-> NoResult, sse42 |-> NoResult,
               avx2 |-> NoResult]

scan_others == <<parser_vars, pool, simd, mt, heap>>

ScanScalar ==
  /\ scan.scalar = NoResult
  /\ scan' = [scan EXCEPT !.scalar = csv_scalar_find_char(scan.d, 0, scan.s, Targets)]
  /\ UNCHANGED scan_others

ScanSse42 ==
  /\ scan.sse42 = NoResult
  /\ scan' = [scan EXCEPT !.sse42 = csv_sse42_find_char(scan.d, scan.s, Targets)]
  /\ UNCHANGED scan_others

ScanAvx2 ==
  /\ scan.avx2 = NoResult
  /\ scan' = [scan EXCEPT !.avx2 = csv_avx2_find_char(scan.d, scan.s, Targets)]
  /\ UNCHANGED scan_others

NextScan == ScanScalar \/ ScanSse42 \/ ScanAvx2

SpecScan == InitScan /\ [][NextScan]_vars

-----------------------------------------------------------------------------
(* The chunks of the multithreaded driver (src/benchmark/bench_sonicsv_mt.c) *)
(*                                                                         *)
(* mt is the file in memory (data, 0-based in C: data[i] is mt.data[i+1]), *)
(* the thread count, the loop index i, current_offset and the chunks set   *)
(* up so far. A size_t is a number modulo SIZE_MODULUS.                    *)

\* the modulus standing for SIZE_MAX + 1: every size of the model is far below it
SIZE_MODULUS == 1073741824

\* a - b in size_t
SizeDiff(a, b) == (a - b + SIZE_MODULUS) % SIZE_MODULUS

\* a + b in size_t
SizeSum(a, b) == (a + b) % SIZE_MODULUS

RECURSIVE LookBackwards(_, _)

\* "for (size_t i = start; i > 0; i--) if (data[i] == '\n') return i + 1;"
LookBackwards(data, i) ==
  IF i > 0
  THEN IF data[i + 1] = LF THEN i + 1 ELSE LookBackwards(data, i - 1)
  ELSE 0

\* find_line_boundary changed to cut at the target position
NoLineBoundary(data, start, max_size) == Min(start, max_size)

find_line_boundary(data, start, max_size) ==
  IF start >= max_size THEN max_size ELSE LookBackwards(data, start)

Files == UNION {[1..n -> {"a", LF}] : n \in 1..MaxFileLen}

InitChunks ==
  /\ ParserIdle
  /\ pool = NoPool
  /\ SimdIdle
  /\ scan = NoScan
  /\ heap = NoHeap
  /\ \E data \in Files, n \in 1..MaxWorkers :
       mt = [data |-> data, file_size |-> Len(data), num_threads |-> n,
             chunk_size |-> Len(data) \div n,
             i |-> 0, current_offset |-> 0, thread_data |-> <<>>]

\* the size of the chunk of thread i
ChunkSize(m, actual_end) ==
  IF m.i = m.num_threads - 1
  THEN SizeDiff(m.file_size, m.current_offset)
  ELSE SizeDiff(actual_end, m.current_offset)

\* one iteration of "Set up thread chunks with proper line boundaries"
SetUpChunk ==
  /\ mt.i < mt.num_threads
  /\ \E size \in {ChunkSize(mt, find_line_boundary(mt.data,
                                   SizeSum(mt.current_offset, mt.chunk_size),
                                   mt.file_size))} :
       mt' = [mt EXCEPT
                !.thread_data = Append(@, [thread_id |-> mt.i,
                                           start_offset |-> mt.current_offset,
                                           chunk_size |-> size]),
                !.current_offset = SizeSum(@, size),
                !.i = @ + 1]
  /\ UNCHANGED <<parser_vars, pool, simd, scan, heap>>

NextChunk == SetUpChunk

SpecChunks == InitChunks /\ [][NextChunk]_vars

-----------------------------------------------------------------------------
(* The allocator: csv_aligned_alloc, csv_aligned_free and the recycling    *)
(* pool of the thread                                                      *)
(*                                                                         *)
(* A block is what aligned_alloc returned: its address modulo              *)
(* SONICSV_CACHE_LINE_SIZE (raw), the bytes asked of aligned_alloc         *)
(* (capacity), the header fields size and alignment, the offset of the     *)
(* user pointer from raw (user) and where the block is: "live" (handed     *)
(* out), "pooled" (in a free list) or "freed". A user pointer is the index *)
(* of its block in heap.blocks. free_blocks[c] is the list of class c,     *)
(* head first. undefined is set once a free has taken bytes of the padding *)
(* for the header: nothing is known of the heap from then on.              *)

RECURSIVE BlockSize(_)

\* block_sizes[i]: 64, 128, ..., 2097152
BlockSize(i) == IF i = 0 THEN 64 ELSE 2 * BlockSize(i - 1)

SizeClasses == 0..15

\* csv_find_size_class: the first class that holds size, or -1
csv_find_size_class(size) ==
  IF \E i \in SizeClasses : size <= BlockSize(i)
  THEN CHOOSE i \in SizeClasses :
         size <= BlockSize(i) /\ \A j \in SizeClasses : size <= BlockSize(j) => i <= j
  ELSE 0 - 1

\* csv_pool_alloc: the head of the class of size + header, or 0 (NULL)
csv_pool_alloc(h, size, alignment) ==
  LET class_idx == csv_find_size_class(size + SIZEOF_CSV_ALLOC_HEADER) IN
  IF class_idx >= 0 /\ h.free_blocks[class_idx] # <<>>
  THEN [h |-> [h EXCEPT !.free_blocks[class_idx] = Tail(@)],
        block |-> Head(h.free_blocks[class_idx])]
  ELSE [h |-> h, block |-> 0]

\* csv_pool_free: whether the block went to the free list of its class
csv_pool_free(h, block, size) ==
  LET class_idx == csv_find_size_class(size + SIZEOF_CSV_ALLOC_HEADER) IN
  IF h.initialized /\ class_idx >= 0 /\ Len(h.free_blocks[class_idx]) < 8
  THEN [h |-> [h EXCEPT !.free_blocks[class_idx] = <<block>> \o @,
                        !.blocks[block].state = "pooled"],
        pooled |-> TRUE]
  ELSE [h |-> h, pooled |-> FALSE]

\* (total_size + alignment - 1) & ~(alignment - 1)
RoundedUp(total_size, alignment) ==
  ((total_size + alignment - 1) \div alignment) * alignment

\* the offset of the aligned user pointer from raw
UserOffset(raw, alignment) ==
  LET misalignment == (raw + SIZEOF_CSV_ALLOC_HEADER) % alignment IN
  IF misalignment # 0
  THEN SIZEOF_CSV_ALLOC_HEADER + alignment - misalignment
  ELSE SIZEOF_CSV_ALLOC_HEADER

\* "Initialize header" and "Return aligned user pointer"
HandedOut(b, size, alignment) ==
  [b EXCEPT !.size = size, !.alignment = alignment, !.state = "live",
            !.user = UserOffset(b.raw, alignment)]

\* csv_aligned_alloc(size, alignment) where aligned_alloc returns an address
\* that is raw modulo the cache line: the heap and the pointer (0 is NULL)
csv_aligned_alloc(h, size, requested_alignment, raw) ==
  LET alignment == IF requested_alignment = 0 THEN SIZEOF_POINTER
                   ELSE requested_alignment
      total_size == SIZEOF_CSV_ALLOC_HEADER + alignment + size
      h1 == [h EXCEPT !.initialized = TRUE]
  IN IF size = 0 THEN [h |-> h, ptr |-> 0]
     ELSE \* the recycled block, or a new one
       LET pa == csv_pool_alloc(h1, size, alignment) IN
       IF pa.block # 0
       THEN [h |-> [pa.h EXCEPT !.blocks[pa.block] = HandedOut(@, size, alignment)],
             ptr |-> pa.block]
       ELSE [h |-> [h1 EXCEPT
                      !.blocks = Append(@, HandedOut(
                         [raw |-> raw,
                          capacity |-> RoundedUp(total_size, alignment),
                          size |-> size, alignment |-> alignment,
                          state |-> "live", user |-> 0, recycled |-> FALSE],
                         size, alignment))],
             ptr |-> Len(h.blocks) + 1]

\* csv_aligned_free(ptr) when the backward search meets the header
csv_aligned_free(h, ptr) ==
  LET pf == csv_pool_free(h, ptr, h.blocks[ptr].size) IN
  IF pf.pooled THEN [pf.h EXCEPT !.blocks[ptr].recycled = TRUE]
  ELSE [h EXCEPT !.blocks[ptr].state = "freed"]

\* the alignments the library asks for: SONICSV_SIMD_ALIGN and the cache line
Alignments == {SONICSV_SIMD_ALIGN, SONICSV_CACHE_LINE_SIZE}

\* the addresses modulo the cache line that aligned_alloc(alignment, ...) yields
RawAddresses(alignment) ==
  {r \in 0..(SONICSV_CACHE_LINE_SIZE - 1) : r % alignment = 0}

\* sizes of two neighbouring classes: 24 fills class 0; 89 and 216 are the
\* ends of class 2
RequestSizes == {0, 24, 89, 216}

InitHeap ==
  /\ ParserIdle
  /\ pool = NoPool
  /\ SimdIdle
  /\ scan = NoScan
  /\ mt = NoFile
  /\ heap = [blocks |-> <<>>, free_blocks |-> [c \in SizeClasses |-> <<>>],
             initialized |-> FALSE, undefined |-> FALSE, calls |-> 0]

heap_others == <<parser_vars, pool, simd, scan, mt>>

AlignedAlloc ==
  /\ ~heap.undefined
  /\ heap.calls < MaxHeapCalls
  /\ \E size \in RequestSizes, alignment \in Alignments :
       \E raw \in RawAddresses(alignment) :
         heap' = [csv_aligned_alloc(heap, size, alignment, raw).h
                    EXCEPT !.calls = @ + 1]
  /\ UNCHANGED heap_others

AlignedFree ==
  /\ ~heap.undefined
  /\ heap.calls < MaxHeapCalls
  /\ \E ptr \in DOMAIN heap.blocks :
       /\ heap.blocks[ptr].state = "live"
       /\ heap' = [csv_aligned_free(heap, ptr) EXCEPT !.calls = @ + 1]
  /\ UNCHANGED heap_others

\* csv_aligned_free when its first candidate, 40 bytes below the pointer,
\* shows the magic number: the four bytes it reads lie in the padding
\* between the header and the user pointer, which nothing has written
AlignedFreeOnStrayMagic ==
  /\ ~heap.undefined
  /\ heap.calls < MaxHeapCalls
  /\ \E ptr \in DOMAIN heap.blocks :
       /\ heap.blocks[ptr].state = "live"
       /\ heap.blocks[ptr].user >= SIZEOF_CSV_ALLOC_HEADER + 4
       /\ heap' = [heap EXCEPT !.undefined = TRUE, !.calls = @ + 1]
  /\ UNCHANGED heap_others

NextHeap == AlignedAlloc \/ AlignedFree \/ AlignedFreeOnStrayMagic

SpecHeap == InitHeap /\ [][NextHeap]_vars

-----------------------------------------------------------------------------
(* What the row callback has seen, and the grammar of unquoted text        *)

\* the rows delivered so far: per field the bytes read (a field whose pointer
\* is stale counted as still holding its content) and the quoted flag
Seen(p) ==
  [i \in 1..Len(p.rows) |->
     [j \in 1..Len(p.rows[i].fields) |->
        LET f == p.rows[i].fields[j] IN
        [bytes |-> IF f.live THEN f.bytes ELSE f.orig, quoted |-> f.quoted]]]

\* the field sizes of the rows delivered so far
SeenSizes(p) ==
  [i \in 1..Len(p.rows) |->
     [j \in 1..Len(p.rows[i].fields) |-> p.rows[i].fields[j].size]]

\* the same stream in one csv_parse_buffer(S, is_final = true) on a new parser
OneShot == csv_parse_buffer(csv_parser_create(parser.options), Fed, TRUE)

QuoteFree(s) == \A i \in 1..Len(s) : s[i] # QUOTE

Ordinary(s) == \A i \in 1..Len(s) : ~IsSpecial(s[i])

\* the terminated lines of an unquoted text: LF, CR LF and a bare CR each end one
RECURSIVE RefLinesFrom(_, _)
RefLinesFrom(s, cur) ==
  IF s = <<>> THEN <<>>
  ELSE IF s[1] = CR /\ Len(s) >= 2 /\ s[2] = LF
  THEN <<cur>> \o RefLinesFrom(SubSeq(s, 3, Len(s)), <<>>)
  ELSE IF s[1] \in {CR, LF} THEN <<cur>> \o RefLinesFrom(Tail(s), <<>>)
  ELSE RefLinesFrom(Tail(s), Append(cur, s[1]))

RefLines(s) == RefLinesFrom(s, <<>>)

\* the bytes after the last terminator
RECURSIVE RefTailFrom(_, _)
RefTailFrom(s, cur) ==
  IF s = <<>> THEN cur
  ELSE IF s[1] \in {CR, LF} THEN RefTailFrom(Tail(s), <<>>)
  ELSE RefTailFrom(Tail(s), Append(cur, s[1]))

RefTail(s) == RefTailFrom(s, <<>>)

\* the fields of an unquoted line: n delimiters separate n + 1 fields
RECURSIVE RefFieldsFrom(_, _)
RefFieldsFrom(line, cur) ==
  IF line = <<>> THEN <<cur>>
  ELSE IF line[1] = DELIM THEN <<cur>> \o RefFieldsFrom(Tail(line), <<>>)
  ELSE RefFieldsFrom(Tail(line), Append(cur, line[1]))

RefFields(line) == RefFieldsFrom(line, <<>>)

RefRow(line) == [j \in 1..Len(RefFields(line)) |-> [bytes |-> RefFields(line)[j], quoted |-> FALSE]]

RefSizes(line) == [j \in 1..Len(RefFields(line)) |-> Len(RefFields(line)[j])]

NoBlankLine(s) == \A i \in 1..Len(RefLines(s)) : RefLines(s)[i] # <<>>

\* a CR that ends one chunk with an LF that begins the next
SplitsCRLF(cs) ==
  \E i \in 1..(Len(cs) - 1) :
    /\ cs[i] # <<>> /\ cs[i][Len(cs[i])] = CR
    /\ cs[i + 1] # <<>> /\ cs[i + 1][1] = LF

-----------------------------------------------------------------------------
(* C1: a stream fed in any chunks, is_final on the last, gives the same    *)
(* row callbacks (rows, field bytes, quoted flags, order) and the same     *)
(* final return code as the stream fed in one is_final call.               *)
C1_ChunkedEqualsOneShot ==
  phase = "final" => Seen(parser) = Seen(OneShot.p) /\ err = OneShot.err

(* C2: at every row callback each field descriptor points into memory      *)
(* that is live (the buffer of the call in progress or a parser-owned      *)
(* buffer still allocated) and the bytes there are the field's content.    *)
C2_FieldsLiveAtCallback ==
  \A i \in 1..Len(parser.rows) : \A j \in 1..Len(parser.rows[i].fields) :
    LET f == parser.rows[i].fields[j] IN f.live /\ f.bytes = f.orig


-----------------------------------------------------------------------------
(* Quoted fields                                                           *)

\* the stream is one quoted field and an LF: QUOTE body QUOTE LF
IsQuotedLine(s) ==
  Len(s) >= 3 /\ s[1] = QUOTE /\ s[Len(s) - 1] = QUOTE /\ s[Len(s)] = LF

\* the stream is one quoted field and nothing after it: QUOTE body QUOTE
IsQuotedOnly(s) == Len(s) >= 2 /\ s[1] = QUOTE /\ s[Len(s)] = QUOTE

QuotedLineBody(s) == SubSeq(s, 2, Len(s) - 2)

QuotedOnlyBody(s) == SubSeq(s, 2, Len(s) - 1)

\* every quote of the body belongs to a doubled pair
RECURSIVE PairsOnly(_)
PairsOnly(body) ==
  IF body = <<>> THEN TRUE
  ELSE IF body[1] # QUOTE THEN PairsOnly(Tail(body))
  ELSE Len(body) >= 2 /\ body[2] = QUOTE /\ PairsOnly(SubSeq(body, 3, Len(body)))

\* k, the doubled pairs of such a body, and m, its non-quote bytes
NumQuotes(body) == Cardinality({i \in 1..Len(body) : body[i] = QUOTE})

NumPairs(body) == NumQuotes(body) \div 2

NumOthers(body) == Len(body) - NumQuotes(body)

\* exactly one row was delivered, holding exactly one field, quoted, of these bytes
OneQuotedField(p, bytes) ==
  /\ Len(p.rows) = 1
  /\ Len(p.rows[1].fields) = 1
  /\ p.rows[1].fields[1].quoted
  /\ p.rows[1].fields[1].bytes = bytes

(* C3: a quoted field whose content is cut between two csv_parse_buffer    *)
(* calls (the first with is_final = false) is emitted exactly once, its    *)
(* bytes being the content between the quotes, every byte once. Stated for *)
(* a stream QUOTE content QUOTE LF of ordinary content bytes, cut anywhere *)
(* from after the opening quote to before the closing quote.               *)
C3_CutQuotedFieldOnce ==
  ( /\ phase = "final"
    /\ Len(chunks) = 2
    /\ IsQuotedLine(Fed)
    /\ Ordinary(QuotedLineBody(Fed))
    /\ Len(chunks[1]) \in 1..(Len(QuotedLineBody(Fed)) + 1) )
  => err = CSV_OK /\ OneQuotedField(parser, QuotedLineBody(Fed))

(* C4: a CR that is the last byte of one chunk and an LF that is the first *)
(* byte of the next are one row terminator: the row ending at the CR is    *)
(* emitted once and the LF gives no further (empty) row. Stated for        *)
(* unquoted streams fed in two chunks, on which the rows must then be the  *)
(* lines of the stream (and its unterminated tail, if any).                *)
C4_SplitCRLFOneTerminator ==
  ( /\ phase = "final"
    /\ Len(chunks) = 2
    /\ SplitsCRLF(chunks)
    /\ QuoteFree(Fed)
    /\ NoBlankLine(Fed) )
  => /\ err = CSV_OK
     /\ Len(parser.rows) = Len(RefLines(Fed)) + (IF RefTail(Fed) = <<>> THEN 0 ELSE 1)
     /\ \A i \in 1..Len(RefLines(Fed)) : SeenSizes(parser)[i] = RefSizes(RefLines(Fed)[i])

(* C5: when the is_final input ends right after the closing quote of a     *)
(* quoted field, that field is emitted as the last field of a row, quoted, *)
(* before csv_parse_buffer returns: the input "a" in one buffer gives one  *)
(* row with the single field a.                                            *)
C5_QuotedFieldAtEndOfInput ==
  ( /\ phase = "final"
    /\ Len(chunks) = 1
    /\ IsQuotedOnly(Fed)
    /\ QuoteFree(QuotedOnlyBody(Fed)) )
  => err = CSV_OK /\ OneQuotedField(parser, QuotedOnlyBody(Fed))

(* C6: with ignore_empty_lines = true a line holding no bytes causes no    *)
(* row callback and does not count as a row; with ignore_empty_lines =     *)
(* false it is one row with a single zero-length field. Stated for         *)
(* unquoted text in one buffer that ends in a terminator: the rows are the *)
(* lines, the empty ones left out under ignore_empty_lines.                *)
C6_EmptyLines ==
  ( /\ phase = "final"
    /\ Len(chunks) = 1
    /\ QuoteFree(Fed)
    /\ RefTail(Fed) = <<>> )
  => LET kept == SelectSeq(RefLines(Fed),
                   LAMBDA line : ~(parser.options.ignore_empty_lines /\ line = <<>>))
     IN /\ err = CSV_OK
        /\ Seen(parser) = [i \in 1..Len(kept) |-> RefRow(kept[i])]
        /\ parser.total_rows_parsed = Len(kept)

(* C7: with double_quote on, a quoted field of k doubled-quote pairs and m *)
(* non-quote bytes is emitted with length k + m. Stated for a stream       *)
(* QUOTE body QUOTE LF fed in chunks that are cut only after quote bytes   *)
(* (no run of content bytes is cut: that case is C3's).                    *)
C7_DoubledQuoteLength ==
  ( /\ phase = "final"
    /\ parser.options.double_quote
    /\ IsQuotedLine(Fed)
    /\ PairsOnly(QuotedLineBody(Fed))
    /\ \A i \in 1..(Len(chunks) - 1) : chunks[i][Len(chunks[i])] = QUOTE )
  => /\ err = CSV_OK
     /\ Len(parser.rows) = 1
     /\ Len(parser.rows[1].fields) = 1
     /\ parser.rows[1].fields[1].quoted
     /\ parser.rows[1].fields[1].size
          = NumPairs(QuotedLineBody(Fed)) + NumOthers(QuotedLineBody(Fed))


-----------------------------------------------------------------------------
(* Terminators and delimiters                                              *)

IsSuffix(t, s) == Len(t) <= Len(s) /\ SubSeq(s, Len(s) - Len(t) + 1, Len(s)) = t

\* the lines of the stream are all delivered as rows, empty ones included
EmptyLinesAreRows(s) == ~parser.options.ignore_empty_lines \/ NoBlankLine(s)

(* C8: while the tokenizer is inside a quoted field, delimiter, LF and CR  *)
(* bytes are appended to the field content and end neither the field nor   *)
(* the row; only a quote byte leaves the in-quoted state. As a step: a     *)
(* call entered in the in-quoted state with a chunk holding no quote       *)
(* leaves the state in-quoted and the chunk at the end of the accumulated  *)
(* content, and unless it is the is_final call adds no field and no row.   *)
C8_Step ==
  LET chunk == chunks'[Len(chunks')] IN
  ( /\ Len(chunks') = Len(chunks) + 1
    /\ parser.state = CSV_STATE_IN_QUOTED_FIELD
    /\ QuoteFree(chunk) )
  => /\ parser'.state = CSV_STATE_IN_QUOTED_FIELD
     /\ IsSuffix(chunk, parser'.field_buffer)
     /\ phase' # "final" =>
          /\ err' = CSV_OK
          /\ parser'.rows = parser.rows
          /\ parser'.fields = parser.fields

C8_QuotedContentKeepsStructuralBytes == [][C8_Step]_vars

C8_Witness ==
  /\ chunks = << <<QUOTE>>, <<DELIM, LF, CR>> >>
  /\ parser.state = CSV_STATE_IN_QUOTED_FIELD
  /\ parser.field_buffer = <<DELIM, LF, CR>>
  /\ parser.rows = <<>>
  /\ parser.fields = <<>>

(* C9: within one buffer each of LF, CR LF and a bare CR ends exactly one  *)
(* row, a CR LF pair never two: the rows delivered for an unquoted text    *)
(* are its lines, one row per terminator, followed by one row for an       *)
(* unterminated tail; a CRLF a CR a LF gives three rows of one field a.    *)
C9_EachTerminatorEndsOneRow ==
  (phase = "final" /\ EmptyLinesAreRows(Fed))
  => /\ err = CSV_OK
     /\ Len(parser.rows) = Len(RefLines(Fed)) + (IF RefTail(Fed) = <<>> THEN 0 ELSE 1)
     /\ \A i \in 1..Len(RefLines(Fed)) : Seen(parser)[i] = RefRow(RefLines(Fed)[i])

C9_Witness ==
  /\ phase = "final"
  /\ Fed = <<"a", CR, LF, "a", CR, "a", LF>>
  /\ Len(parser.rows) = 3
  /\ \A i \in 1..3 : Seen(parser)[i] = <<[bytes |-> <<"a">>, quoted |-> FALSE]>>

(* C10: a row whose last byte before its terminator is a delimiter gets    *)
(* one extra zero-length final field: a terminated row with n delimiters   *)
(* has n + 1 fields. Stated for unquoted streams in any chunking that cuts *)
(* no CR LF pair: row i has the field sizes of line i split at its         *)
(* delimiters.                                                             *)
C10_DelimitersPlusOneFields ==
  ( /\ phase = "final"
    /\ QuoteFree(Fed)
    /\ ~SplitsCRLF(chunks)
    /\ EmptyLinesAreRows(Fed) )
  => \A i \in 1..Len(RefLines(Fed)) :
       /\ i <= Len(parser.rows)
       /\ SeenSizes(parser)[i] = RefSizes(RefLines(Fed)[i])

C10_Witness ==
  /\ phase = "final"
  /\ chunks = << <<"a", DELIM>>, <<DELIM, LF>> >>
  /\ SeenSizes(parser) = << <<1, 0, 0>> >>

-----------------------------------------------------------------------------
(* C11: when the is_final input ends right after a delimiter, with no      *)
(* terminator, the last row still gets a zero-length final field: a,b,     *)
(* gives one row of three fields, the last of length 0.                    *)

EndsWithDelimiter(s) == s # <<>> /\ s[Len(s)] = DELIM

LastRowSizes(p) == SeenSizes(p)[Len(p.rows)]

C11_TrailingDelimiterAtEndOfInput ==
  ( /\ phase = "final"
    /\ QuoteFree(Fed)
    /\ EndsWithDelimiter(Fed) )
  => /\ err = CSV_OK
     /\ parser.rows # <<>>
     /\ LastRowSizes(parser) = RefSizes(RefTail(Fed))

-----------------------------------------------------------------------------
(* C12: in strict mode, when the input ends (is_final) while a quoted      *)
(* field is still open, whatever follows the opening quote and however the *)
(* input was chunked, csv_parse_buffer returns ParseError and no row       *)
(* holding that field is delivered.                                        *)

\* the only quote of s is at k and stands where a field starts
OpensQuotedField(s, k) ==
  /\ s[k] = QUOTE
  /\ k = 1 \/ s[k - 1] \in {DELIM, LF, CR}
  /\ \A i \in 1..Len(s) : i # k => s[i] # QUOTE

EndsInOpenQuote(s) == \E k \in 1..Len(s) : OpensQuotedField(s, k)

\* the bytes after the opening quote
OpenContent(s) ==
  LET k == CHOOSE k \in 1..Len(s) : OpensQuotedField(s, k)
  IN SubSeq(s, k + 1, Len(s))

HasQuotedField(p) ==
  \E i \in 1..Len(p.rows) : \E j \in 1..Len(p.rows[i].fields) :
    p.rows[i].fields[j].quoted

C12_StrictUnclosedQuoteIsParseError ==
  ( /\ phase = "final"
    /\ parser.options.strict_mode
    /\ EndsInOpenQuote(Fed) )
  => /\ err = CSV_ERROR_PARSE_ERROR
     /\ ~HasQuotedField(parser)

-----------------------------------------------------------------------------
(* C13: in non-strict mode, when the input ends (is_final) inside an open  *)
(* quoted field, the field is closed with the content accumulated so far   *)
(* (possibly empty), added as the last field of the current row with       *)
(* quoted = true, the row is emitted and OK is returned.                   *)

LastField(p) ==
  LET row == Seen(p)[Len(p.rows)] IN row[Len(row)]

C13_NonStrictUnclosedQuoteIsClosed ==
  ( /\ phase = "final"
    /\ ~parser.options.strict_mode
    /\ EndsInOpenQuote(Fed) )
  => /\ err = CSV_OK
     /\ parser.rows # <<>>
     /\ LastField(parser) = [bytes |-> OpenContent(Fed), quoted |-> TRUE]

-----------------------------------------------------------------------------
(* C14: in strict mode a quote byte met inside an unquoted field, and a    *)
(* byte other than delimiter, LF, CR, space or tab met right after a       *)
(* closing quote, each make csv_parse_buffer return ParseError at that     *)
(* byte, and no further row callback is made in that call.                 *)

\* the buffer a call tokenizes: the carryover with the new chunk appended
Tokenized == SubSeq(parser.unparsed_buffer, 1, parser.unparsed_size)
               \o chunks'[Len(chunks')]

HasQuote(s) == ~QuoteFree(s)

FirstQuote(s) == CHOOSE k \in 1..Len(s) : s[k] = QUOTE /\ QuoteFree(SubSeq(s, 1, k - 1))

Terminators(s) == Cardinality({i \in 1..Len(s) : s[i] \in {LF, CR}})

\* the call fails with ParseError after n bytes of its buffer, having
\* delivered no more rows than the terminators among those n bytes
FailsAt(n) ==
  /\ err' = CSV_ERROR_PARSE_ERROR
  /\ parser'.total_bytes_processed = parser.total_bytes_processed + n
  /\ parser'.errors_encountered = parser.errors_encountered + 1
  /\ Len(parser'.rows) - Len(parser.rows) <= Terminators(SubSeq(Tokenized, 1, n))

\* the first quote of the buffer follows a data byte of an unquoted field
QuoteInUnquoted(b) ==
  /\ parser.state = CSV_STATE_FIELD_START
  /\ HasQuote(b) /\ FirstQuote(b) > 1 /\ ~IsSpecial(b[FirstQuote(b) - 1])

\* the buffer continues an open quoted field whose closing quote is
\* followed by a data byte
DataAfterClosingQuote(b) ==
  /\ parser.state = CSV_STATE_IN_QUOTED_FIELD
  /\ HasQuote(b) /\ FirstQuote(b) < Len(b) /\ ~IsSpecial(b[FirstQuote(b) + 1])

\* the previous buffer ended with the closing quote, this one begins with data
DataAfterClosingQuoteOfLastCall(b) ==
  /\ parser.state = CSV_STATE_QUOTE_IN_QUOTED_FIELD
  /\ b # <<>> /\ ~IsSpecial(b[1])

C14_Step ==
  ( /\ chunks' # chunks
    /\ parser.options.strict_mode )
  => /\ QuoteInUnquoted(Tokenized) => FailsAt(FirstQuote(Tokenized) - 1)
     /\ DataAfterClosingQuote(Tokenized) => FailsAt(FirstQuote(Tokenized))
     /\ DataAfterClosingQuoteOfLastCall(Tokenized) => FailsAt(0)

C14_StrictParseErrors == [][C14_Step]_vars

C14_Witness ==
  /\ parser.options.strict_mode
  /\ chunks = << <<"a", LF, "a">>, <<QUOTE>> >>
  /\ err = CSV_ERROR_PARSE_ERROR
  /\ Len(parser.rows) = 1
  /\ parser.total_bytes_processed = 3

-----------------------------------------------------------------------------
(* C15: in non-strict mode csv_parse_buffer never returns ParseError, for  *)
(* any input bytes and any chunking.                                       *)

ReportedParseError(p) ==
  \E i \in 1..Len(p.errors) : p.errors[i].kind = CSV_ERROR_PARSE_ERROR

C15_NonStrictNeverParseError ==
  ~parser.options.strict_mode
  => /\ err # CSV_ERROR_PARSE_ERROR
     /\ ~ReportedParseError(parser)

\* a quote inside an unquoted field and a data byte after a closing quote
C15_Witness ==
  /\ ~parser.options.strict_mode
  /\ phase = "final"
  /\ chunks = << <<"a", QUOTE>>, <<QUOTE, "a">> >>
  /\ parser.field_buffer = <<QUOTE, "a">>
  /\ err = CSV_OK

-----------------------------------------------------------------------------
(* C16: in non-strict mode a quote byte inside an unquoted field (after at *)
(* least one data byte) is kept as a data byte of that field: it neither   *)
(* ends the field nor opens a quoted one, so a"b,c and a terminator is the *)
(* two fields a"b and c.                                                   *)

\* one LF-terminated line whose only quote follows a data byte
OneLineWithQuoteInUnquoted(s) ==
  /\ Len(s) >= 3
  /\ s[Len(s)] = LF
  /\ Terminators(s) = 1
  /\ \E k \in 2..(Len(s) - 1) :
       /\ s[k] = QUOTE
       /\ ~IsSpecial(s[k - 1])
       /\ \A i \in 1..Len(s) : i # k => s[i] # QUOTE

C16_QuoteInUnquotedIsData ==
  ( /\ phase = "final"
    /\ ~parser.options.strict_mode
    /\ OneLineWithQuoteInUnquoted(Fed) )
  => /\ err = CSV_OK
     /\ Seen(parser) = << RefRow(SubSeq(Fed, 1, Len(Fed) - 1)) >>

-----------------------------------------------------------------------------
(* C17: row callbacks come in stream order, and calls with is_final =      *)
(* false deliver only rows whose terminator byte has been received: an     *)
(* unterminated last row is held back until its terminator arrives or      *)
(* is_final is passed.                                                     *)

RefRows(s) == [i \in 1..Len(RefLines(s)) |-> RefRow(RefLines(s)[i])]

\* the rows delivered so far, each field with the content it was recorded
\* with (what its pointer designates at the callback is C2's matter)
Recorded(p) ==
  [i \in 1..Len(p.rows) |->
     [j \in 1..Len(p.rows[i].fields) |->
        [bytes |-> p.rows[i].fields[j].orig, quoted |-> p.rows[i].fields[j].quoted]]]

C17_OnlyTerminatedRowsBeforeFinal ==
  phase = "feeding"
  => /\ Len(parser.rows) <= Terminators(Fed)
     /\ ( /\ QuoteFree(Fed)
          /\ ~SplitsCRLF(chunks)
          /\ EmptyLinesAreRows(Fed) )
        => Recorded(parser) = RefRows(Fed)

\* one terminated row delivered, the unterminated one held in the carryover
C17_Witness ==
  /\ phase = "feeding"
  /\ chunks = << <<"a", LF>>, <<DELIM, "a">> >>
  /\ Len(parser.rows) = 1
  /\ Len(parser.fields) = 1
  /\ parser.unparsed_size = 1

-----------------------------------------------------------------------------
(* C18: across the row callbacks of one parser since its creation or last  *)
(* reset, row_number is 1 for the first row and the previous row_number    *)
(* plus 1 for every later row, however the input is chunked.               *)

\* a csv_parser_reset has been made: more calls than chunks since the reset
AfterReset == parser.calls > Len(chunks)

C18_RowNumbersCountFromOne ==
  \A i \in 1..Len(parser.rows) : parser.rows[i].row_number = i

C18_Witness ==
  /\ AfterReset
  /\ Len(chunks) = 2
  /\ Len(parser.rows) = 2
  /\ parser.rows[2].row_number = 2

-----------------------------------------------------------------------------
(* C19: the byte_offset passed with each row is the number of stream bytes *)
(* that precede the row's first byte (since creation or the last reset,    *)
(* across all chunks, the bytes that went through the carryover included), *)
(* and so strictly increases from one row to the next.                     *)

\* where the lines of an unquoted text start, the unterminated tail included
RECURSIVE RefStartsFrom(_, _, _)
RefStartsFrom(s, i, start) ==
  IF i > Len(s) THEN <<start>>
  ELSE IF s[i] = CR /\ i < Len(s) /\ s[i + 1] = LF
  THEN <<start>> \o RefStartsFrom(s, i + 2, i + 1)
  ELSE IF s[i] \in {CR, LF} THEN <<start>> \o RefStartsFrom(s, i + 1, i)
  ELSE RefStartsFrom(s, i + 1, start)

RefStarts(s) == RefStartsFrom(s, 1, 0)

ByteOffsets(p) == [i \in 1..Len(p.rows) |-> p.rows[i].byte_offset]

-----------------------------------------------------------------------------
(* C20: after every csv_parse_buffer call that returns OK,                 *)
(* total_bytes_processed plus the bytes held in the carryover buffer is    *)
(* the number of bytes fed since creation or reset; after an is_final call *)
(* returning OK the carryover is empty and total_bytes_processed is the    *)
(* number of bytes fed.                                                    *)

-----------------------------------------------------------------------------
(* C21: after a parse that ends with an is_final call returning OK,        *)
(* total_rows_parsed is the number of row callbacks made and               *)
(* total_fields_parsed the sum of num_fields over those rows; neither      *)
(* counter decreases between resets.                                       *)

RECURSIVE FieldsDelivered(_)
FieldsDelivered(rows) ==
  IF rows = <<>> THEN 0 ELSE Len(rows[1].fields) + FieldsDelivered(Tail(rows))

\* this step is a csv_parser_reset
IsReset == chunks # <<>> /\ chunks' = <<>>

C21_Step ==
  /\ ( phase' = "final" /\ err' = CSV_OK )
     => /\ parser'.total_rows_parsed = Len(parser'.rows)
        /\ parser'.total_fields_parsed = FieldsDelivered(parser'.rows)
  /\ ~IsReset
     => /\ parser'.total_rows_parsed >= parser.total_rows_parsed
        /\ parser'.total_fields_parsed >= parser.total_fields_parsed

C21_CountersMatchCallbacks == [][C21_Step]_vars

\* two rows of two fields each, the second delivered by the final flush
C21_Witness ==
  /\ phase = "final"
  /\ err = CSV_OK
  /\ chunks = << <<DELIM, LF>>, <<"a", DELIM>> >>
  /\ parser.total_rows_parsed = 2
  /\ parser.total_fields_parsed = 3

-----------------------------------------------------------------------------
(* C22: from every parser state reachable by csv_parse_buffer calls        *)
(* (suspended mid-field, inside a quoted field, after a closing quote,     *)
(* with fields pending, after an error return), csv_parser_reset and then  *)
(* parsing an input gives the same row callbacks, return codes and         *)
(* statistics counters as parsing it on a newly created parser with the    *)
(* same options.                                                           *)

\* the chunks cs fed to p, the last one with is_final when final
RECURSIVE Replay(_, _, _)
Replay(p, cs, final) ==
  IF cs = <<>> THEN Result(p, CSV_OK)
  ELSE LET r == csv_parse_buffer(p, cs[1], final /\ Len(cs) = 1)
       IN IF Len(cs) = 1 THEN r ELSE Replay(r.p, Tail(cs), final)

\* a field as recorded: content, length and quoted flag
Recorded1(f) == [bytes |-> f.orig, size |-> f.size, quoted |-> f.quoted]

\* what callbacks and statistics show of a parser, and what its tokenizer holds
Observable(p) ==
  [rows |-> [i \in 1..Len(p.rows) |->
               [fields |-> [j \in 1..Len(p.rows[i].fields) |->
                              Recorded1(p.rows[i].fields[j])],
                row_number |-> p.rows[i].row_number,
                byte_offset |-> p.rows[i].byte_offset]],
   errors |-> p.errors,
   total_bytes_processed |-> p.total_bytes_processed,
   total_rows_parsed |-> p.total_rows_parsed,
   total_fields_parsed |-> p.total_fields_parsed,
   errors_encountered |-> p.errors_encountered,
   state |-> p.state,
   fields |-> [j \in 1..Len(p.fields) |-> Recorded1(p.fields[j])],
   field_buffer |-> p.field_buffer,
   carryover |-> SubSeq(p.unparsed_buffer, 1, p.unparsed_size)]

OnNewParser == Replay(csv_parser_create(parser.options), chunks, phase = "final")

-----------------------------------------------------------------------------
(* C23: csv_parse_buffer with size 0 and is_final = false returns OK and   *)
(* leaves every piece of parser state unchanged (tokenizer state, field    *)
(* table, accumulator, carryover, counters) in every reachable state, a    *)
(* suspension inside a quoted field included; with size 0 and is_final =   *)
(* true it flushes the pending partial row.                                *)

\* the parser's own state: everything but the call count and the logs
ParserState(p) ==
  [state |-> p.state,
   fields |-> p.fields,
   field_buffer |-> p.field_buffer,
   carryover |-> SubSeq(p.unparsed_buffer, 1, p.unparsed_size),
   unparsed_capacity |-> p.unparsed_capacity,
   field_data_pool |-> p.field_data_pool,
   field_data_pool_capacity |-> p.field_data_pool_capacity,
   current_row_start_offset |-> p.current_row_start_offset,
   total_bytes_processed |-> p.total_bytes_processed,
   total_rows_parsed |-> p.total_rows_parsed,
   total_fields_parsed |-> p.total_fields_parsed,
   errors_encountered |-> p.errors_encountered]

\* this step is a call with size 0
IsEmptyCall == chunks' = Append(chunks, <<>>)

\* an unquoted partial row: fields recorded or bytes of a field carried over
HasPartialRow(p) ==
  p.state = CSV_STATE_FIELD_START /\ (p.fields # <<>> \/ p.unparsed_size > 0)

C23_Step ==
  /\ ( IsEmptyCall /\ phase' = "feeding" )
     => /\ err' = CSV_OK
        /\ ParserState(parser') = ParserState(parser)
        /\ parser'.rows = parser.rows
  /\ ( IsEmptyCall /\ phase' = "final" /\ HasPartialRow(parser) )
     => /\ err' = CSV_OK
        /\ Len(parser'.rows) = Len(parser.rows) + 1
        /\ parser'.fields = <<>>

C23_EmptyCallChangesNothing == [][C23_Step]_vars

-----------------------------------------------------------------------------
(* C24: whenever the sum of the field lengths of a completed row exceeds   *)
(* max_row_size, csv_parse_buffer returns RowTooLarge, the row callback is *)
(* not invoked for that row and the row count is not incremented.          *)

RECURSIVE Sum(_)
Sum(ns) == IF ns = <<>> THEN 0 ELSE ns[1] + Sum(Tail(ns))

\* the completed lines of an unquoted stream: the terminated ones, and after
\* the is_final call the unterminated rest
CompletedLines ==
  RefLines(Fed) \o (IF phase = "final" /\ RefTail(Fed) # <<>>
                    THEN <<RefTail(Fed)>> ELSE <<>>)

RowFits(line) == Sum(RefSizes(line)) <= parser.options.max_row_size

FieldsFit(line) ==
  \A j \in 1..Len(RefSizes(line)) : RefSizes(line)[j] <= parser.options.max_field_size

\* line k is the first that is too large as a row, no field up to it too large
FirstRowTooLarge(k) ==
  /\ k \in 1..Len(CompletedLines)
  /\ ~RowFits(CompletedLines[k])
  /\ \A j \in 1..k : FieldsFit(CompletedLines[j])
  /\ \A j \in 1..(k - 1) : RowFits(CompletedLines[j])

C24_RowTooLargeIsRefused ==
  /\ \A i \in 1..Len(parser.rows) :
       Sum(SeenSizes(parser)[i]) <= parser.options.max_row_size
  /\ parser.total_rows_parsed = Len(parser.rows)
  /\ \A k \in 1..Len(Fed) :
       ( QuoteFree(Fed) /\ FirstRowTooLarge(k) )
       => /\ err = CSV_ERROR_ROW_TOO_LARGE
          /\ Len(parser.rows) = k - 1
          /\ parser.errors_encountered = 1

\* max_row_size 1: the row a is delivered, the row aa is refused
C24_Witness ==
  /\ parser.options.max_row_size = 1
  /\ parser.options.max_field_size = 2
  /\ chunks = << <<"a", LF>>, <<"a", "a">> >>
  /\ err = CSV_ERROR_ROW_TOO_LARGE
  /\ Len(parser.rows) = 1

-----------------------------------------------------------------------------
(* C25: the accumulated length of an open quoted field never exceeds       *)
(* max_field_size: an append that would exceed it returns FieldTooLarge    *)
(* and leaves the accumulator unchanged, and no field longer than          *)
(* max_field_size, quoted or unquoted, is delivered to the row callback.   *)

\* the runs csv_parse_buffer may hand to append_to_field_buffer
Appended == {<<c>> : c \in {"a", QUOTE}} \cup {<<c, d>> : c, d \in {"a", QUOTE}}

C25_FieldSizeIsBounded ==
  /\ Len(parser.field_buffer) <= parser.options.max_field_size
  /\ \A bytes \in Appended :
       LET r == append_to_field_buffer(parser, bytes) IN
       IF Len(parser.field_buffer) + Len(bytes) > parser.options.max_field_size
       THEN r.err = CSV_ERROR_FIELD_TOO_LARGE /\ r.p = parser
       ELSE r.err = CSV_OK /\ r.p.field_buffer = parser.field_buffer \o bytes
  /\ \A i \in 1..Len(parser.rows) : \A j \in 1..Len(parser.rows[i].fields) :
       /\ parser.rows[i].fields[j].size <= parser.options.max_field_size
       /\ Len(Seen(parser)[i][j].bytes) <= parser.options.max_field_size

\* max_field_size 1: "a is accumulated, the next a is refused and the
\* accumulator still holds one byte
C25_Witness ==
  /\ parser.options.max_field_size = 1
  /\ Len(chunks) = 2
  /\ chunks[1] = <<QUOTE, "a">>
  /\ err = CSV_ERROR_FIELD_TOO_LARGE
  /\ parser.state = CSV_STATE_IN_QUOTED_FIELD
  /\ parser.field_buffer = <<"a">>

-----------------------------------------------------------------------------
(* C26: every error return of a parsing entry point on a non-null parser   *)
(* (csv_parse_buffer, csv_parse_string, csv_parse_stream, csv_parse_file), *)
(* for every error kind, increments stats.errors_encountered by one and is *)
(* preceded by exactly one invocation of the error callback carrying the   *)
(* same error kind.                                                        *)

\* the step is a call of an entry point on the parser
IsCall == Len(chunks') = Len(chunks) + 1 /\ phase' # "no parser"

C26_Step ==
  ( IsCall /\ err' # CSV_OK )
  => /\ parser'.errors_encountered = parser.errors_encountered + 1
     /\ Len(parser'.errors) = Len(parser.errors) + 1
     /\ parser'.errors[Len(parser'.errors)].kind = err'

C26_EveryErrorIsReported == [][C26_Step]_vars

-----------------------------------------------------------------------------
(* C27: a null parser, a null string, filename or stream, a null buffer    *)
(* with nonzero size, an empty or over-long filename, and a parser whose   *)
(* max_field_size or max_row_size is zero each make the entry point return *)
(* InvalidArguments, with no row or error callback invoked and no parser   *)
(* state changed.                                                          *)

\* the strings and buffers of up to MaxStringLen bytes
Strings == UNION {[1..k -> ArgAlphabet] : k \in 0..MaxStringLen}

\* streams without a read error, and the names of files that can be opened
GoodStreams == {[content |-> c, error |-> FALSE, fails |-> FALSE] : c \in Strings}

GoodFilenames == {[len |-> 8, f |-> f] : f \in GoodStreams}

\* the call returned InvalidArguments and left the parser as it was
Rejected(p, r) == r = Result(p, CSV_ERROR_INVALID_ARGS)

ZeroLimit(p) == p.options.max_field_size = 0 \/ p.options.max_row_size = 0

NullArgumentsAreRejected ==
  /\ \A buf \in Strings \cup {NULL}, is_final \in BOOLEAN :
       /\ Rejected(NoParser, csv_parse_buffer_checked(NoParser, buf, 0, is_final))
       /\ Rejected(NoParser, csv_parse_string(NoParser, buf))
  /\ \A stream \in GoodStreams \cup {NoStream} :
       Rejected(NoParser, csv_parse_stream(NoParser, stream))
  /\ \A filename \in GoodFilenames \cup {NoName} :
       Rejected(NoParser, csv_parse_file(NoParser, filename))
  /\ Rejected(parser, csv_parse_string(parser, NULL))
  /\ Rejected(parser, csv_parse_stream(parser, NoStream))
  /\ Rejected(parser, csv_parse_file(parser, NoName))
  /\ \A sz \in 1..MaxStringLen, is_final \in BOOLEAN :
       Rejected(parser, csv_parse_buffer_checked(parser, NULL, sz, is_final))

BadFilenamesAreRejected ==
  \A f \in GoodStreams \cup {NoStream} :
    /\ Rejected(parser, csv_parse_file(parser, [len |-> 0, f |-> f]))
    /\ Rejected(parser, csv_parse_file(parser, [len |-> MAX_FILENAME_LENGTH + 1, f |-> f]))

ZeroLimitsAreRejected ==
  ZeroLimit(parser)
  => /\ \A buf \in Strings, is_final \in BOOLEAN :
          Rejected(parser, csv_parse_buffer_checked(parser, buf, Len(buf), is_final))
     /\ \A csv_line \in Strings : Rejected(parser, csv_parse_string(parser, csv_line))
     /\ \A stream \in GoodStreams : Rejected(parser, csv_parse_stream(parser, stream))
     /\ \A filename \in GoodFilenames : Rejected(parser, csv_parse_file(parser, filename))

C27_InvalidArgumentsChangeNothing ==
  /\ NullArgumentsAreRejected
  /\ BadFilenamesAreRejected
  /\ ZeroLimitsAreRejected

-----------------------------------------------------------------------------
(* C28: for every NUL-terminated string s and every parser state,          *)
(* csv_parse_string(p, s) has the same effect (return code, row callbacks, *)
(* error callbacks, resulting parser state) as                             *)
(* csv_parse_buffer(p, s, strlen(s), is_final = true).                     *)

C28_ParseStringIsFinalParseBuffer ==
  \A s \in Strings :
    csv_parse_string(parser, s) = csv_parse_buffer_checked(parser, s, Len(s), TRUE)

-----------------------------------------------------------------------------
(* C29: after a strict-mode ParseError return the fields of the row that   *)
(* was being tokenized are discarded: no later row callback on that parser *)
(* (for example on a following csv_parse_buffer call with is_final = true) *)
(* delivers fields that were recorded before the error.                    *)

\* The call that follows a ParseError return delivers no more fields than
\* it recorded itself.
C29_Step ==
  ( IsCall /\ err = CSV_ERROR_PARSE_ERROR /\ parser.options.strict_mode )
  => FieldsDelivered(parser'.rows) - FieldsDelivered(parser.rows)
       <= parser'.total_fields_parsed - parser.total_fields_parsed

C29_FieldsBeforeParseErrorAreDiscarded == [][C29_Step]_vars

-----------------------------------------------------------------------------
(* C30: the row callbacks and return codes one parser produces for a given *)
(* input sequence are the same whatever operations are performed, before   *)
(* or concurrently, on other parser instances: parsers share no state that *)
(* influences parsing other than the SIMD feature bitmask.                 *)

\* the same calls on the same parser with no other instance in the process
Alone == Replay(csv_parser_create(parser.options), chunks, phase = "final")

C30_InstancesAreIndependent ==
  /\ err = Alone.err
  /\ Observable(parser) = Observable(Alone.p)

-----------------------------------------------------------------------------
(* C31: csv_string_pool_intern is idempotent on content: in any sequence   *)
(* of intern calls since creation or the last clear, interning a byte      *)
(* string equal to one interned earlier returns the identical pointer,     *)
(* different contents get different pointers, and every pointer returned   *)
(* earlier still designates its own NUL-terminated content, also after the *)
(* pool's byte storage or its index has grown.                             *)

\* the pointer an intern call returned still points at its content
Designates(sp, e) ==
  /\ LiveString(sp, e.ptr)
  /\ e.ptr.off + Len(e.bytes) + 1 <= sp.data_size
  /\ SubSeq(sp.data, e.ptr.off + 1, e.ptr.off + Len(e.bytes) + 1) = e.bytes \o <<NUL>>

C31_InternIsIdempotent ==
  /\ \A i, j \in DOMAIN pool.interned :
       (pool.interned[i].bytes = pool.interned[j].bytes)
         <=> (pool.interned[i].ptr = pool.interned[j].ptr)
  /\ \A i \in DOMAIN pool.interned : Designates(pool, pool.interned[i])

-----------------------------------------------------------------------------
(* C32: after every csv_parse_buffer call with is_final = true that        *)
(* returns OK, the field table is empty (num_fields = 0) and the tokenizer *)
(* state is FIELD_START, also when the input ended right after a closing   *)
(* quote or inside a quoted field that non-strict mode closed by force.    *)

C32_FinalCallLeavesTokenizerIdle ==
  (phase = "final" /\ err = CSV_OK)
  => /\ parser.fields = <<>>
     /\ parser.state = CSV_STATE_FIELD_START

-----------------------------------------------------------------------------
(* C33: in non-strict mode, when a byte other than delimiter, LF, CR,      *)
(* space or tab follows a closing quote, the closing quote and that byte   *)
(* are both appended to the field content and tokenizing continues inside  *)
(* the same quoted field: the field is not emitted at that point.          *)

\* the parser and the frame with which the loop of a call is entered
Entered(p, chunk, is_final) ==
  [p |-> [Prepend(p, chunk) EXCEPT !.calls = @ + 1],
   cx |-> [buf |-> IF p.unparsed_size > 0
                   THEN SubSeq(Prepend(p, chunk).unparsed_buffer, 1,
                               p.unparsed_size + Len(chunk))
                   ELSE chunk,
           from_unparsed |-> p.unparsed_size > 0,
           call_id |-> p.calls + 1,
           is_final |-> is_final,
           obp |-> p.total_bytes_processed]]

RECURSIVE IterationsFrom(_, _, _, _, _)

\* the iterations of the loop from (p, pos), at most fuel of them: each with
\* the parser and cursor it starts from and what it yields
IterationsFrom(p, cx, pos, r, fuel) ==
  <<[p |-> p, pos |-> pos, r |-> r]>>
  \o (IF r.err # CSV_OK \/ r.ret \/ r.pos >= Len(cx.buf) \/ fuel <= 1 THEN <<>>
      ELSE IterationsFrom(r.p, cx, r.pos, Step(r.p, cx, r.pos), fuel - 1))

Iterations(e, fuel) ==
  IF Len(e.cx.buf) = 0 THEN <<>>
  ELSE IterationsFrom(e.p, e.cx, 0, Step(e.p, e.cx, 0), fuel)

\* the iterations of the call this step makes
IterationsOfCall ==
  Iterations(Entered(parser, chunks'[Len(chunks')], phase' = "final"),
             Len(Fed) + Len(chunks'[Len(chunks')]) + 1)

DataAfterClosingQuoteAt(it, buf) ==
  /\ it.p.state = CSV_STATE_QUOTE_IN_QUOTED_FIELD
  /\ ~it.p.options.strict_mode
  /\ buf[it.pos + 1] \notin {DELIM, LF, CR, SPACE, TAB}

Unclosed(it, buf) ==
  /\ it.r.err = CSV_OK
  /\ ~it.r.ret
  /\ it.r.pos = it.pos + 1
  /\ it.r.p.state = CSV_STATE_IN_QUOTED_FIELD
  /\ it.r.p.field_buffer = it.p.field_buffer \o <<QUOTE, buf[it.pos + 1]>>
  /\ it.r.p.fields = it.p.fields
  /\ it.r.p.rows = it.p.rows

C33_Step ==
  IsCall =>
    \A its \in {IterationsOfCall} : \A i \in DOMAIN its :
      \A buf \in {Entered(parser, chunks'[Len(chunks')], FALSE).cx.buf} :
        DataAfterClosingQuoteAt(its[i], buf) => Unclosed(its[i], buf)

C33_DataAfterClosingQuoteReopensField == [][C33_Step]_vars

C33_Witness ==
  /\ ~parser.options.strict_mode
  /\ chunks = << <<QUOTE, "a", QUOTE, "a">> >>
  /\ parser.state = CSV_STATE_IN_QUOTED_FIELD
  /\ parser.field_buffer = <<"a", QUOTE, "a">>
  /\ parser.fields = <<>>
  /\ parser.rows = <<>>

-----------------------------------------------------------------------------
(* C34: the number of bytes held in the carryover (unparsed) buffer        *)
(* between csv_parse_buffer calls never exceeds max_row_size, whatever the *)
(* input and its chunking.                                                 *)

C34_CarryoverWithinRowLimit ==
  parser.unparsed_size <= parser.options.max_row_size

-----------------------------------------------------------------------------
(* C35: the parser-owned storage in use (carryover length + accumulator    *)
(* length + bytes of quoted-field storage taken by the current row) stays  *)
(* within max_field_size + 2 * max_row_size after any number of rows: the  *)
(* storage taken by a row's quoted fields is released when the row is      *)
(* emitted, so that usage does not grow with the number of rows parsed.    *)

StorageInUse(p) ==
  p.unparsed_size + Len(p.field_buffer) + Len(p.field_data_pool)

C35_StorageIsBounded ==
  /\ StorageInUse(parser)
       <= parser.options.max_field_size + 2 * parser.options.max_row_size
  /\ (parser.rows # <<>> /\ parser.fields = <<>>) => parser.field_data_pool = <<>>

-----------------------------------------------------------------------------
(* C36: under any interleaving of threads that create parsers or scan, the *)
(* process-wide SIMD feature mask is detected and written exactly once (a  *)
(* single winner of an atomic compare-and-set): no second thread repeats   *)
(* the detection or writes the mask again.                                 *)

C36_FeaturesDetectedOnce ==
  /\ simd.detections <= 1
  /\ simd.writes <= 1
  /\ simd.initialized => (simd.detections = 1 /\ simd.writes = 1)

-----------------------------------------------------------------------------
(* C37: for every byte run and the target set {delimiter, quote, LF, CR},  *)
(* each scan implementation (scalar, 16-byte vector, 32-byte vector)       *)
(* returns the smallest index holding a target byte, or not-found with the *)
(* offset equal to the run length when there is none; the implementations  *)
(* agree on every input, a run of length zero gives not-found, and no      *)
(* index at or past the run length is read.                                *)

TargetIndexes == {i \in 0..(scan.s - 1) : scan.d[i + 1] \in {DELIM, QUOTE, LF, CR}}

SmallestTarget == CHOOSE i \in TargetIndexes : \A j \in TargetIndexes : i <= j

ScanIsRight(r) ==
  /\ r.extent <= scan.s
  /\ IF TargetIndexes = {}
     THEN r.pos = NullPos /\ r.offset = scan.s
     ELSE r.pos = SmallestTarget /\ r.offset = SmallestTarget

Results == {r \in {scan.scalar, scan.sse42, scan.avx2} : r # NoResult}

C37_ScansFindFirstTarget ==
  /\ \A r \in Results : ScanIsRight(r)
  /\ \A r1, r2 \in Results : r1.pos = r2.pos /\ r1.offset = r2.offset

C37_Witness ==
  /\ scan.s = 65
  /\ TargetIndexes = {64, 20}
  /\ scan.scalar # NoResult /\ scan.sse42 # NoResult /\ scan.avx2 # NoResult
  /\ scan.avx2.pos = 20

-----------------------------------------------------------------------------
(* C38: csv_parse_buffer terminates on every input: each iteration of its  *)
(* tokenizing loop either advances the cursor by at least one byte or      *)
(* leaves the loop (error or suspension), in each of the three tokenizer   *)
(* states and in strict and non-strict mode, so that a call makes no more  *)
(* iterations than its buffer has bytes.                                   *)

LeavesLoop(it) == it.r.err # CSV_OK \/ it.r.ret

AdvancesOrLeaves(it) == LeavesLoop(it) \/ it.r.pos > it.pos

C38_Step ==
  IsCall =>
    \A e \in {Entered(parser, chunks'[Len(chunks')], phase' = "final")} :
      \A its \in {Iterations(e, Len(e.cx.buf) + 1)} :
        /\ \A i \in DOMAIN its : AdvancesOrLeaves(its[i])
        /\ Len(its) <= Len(e.cx.buf)
        /\ its # <<>> =>
             (LeavesLoop(its[Len(its)]) \/ its[Len(its)].r.pos >= Len(e.cx.buf))

C38_EveryIterationAdvances == [][C38_Step]_vars

\* a call has gone through the three states, the blank after a closing quote
\* included
C38_Witness ==
  /\ chunks = << <<QUOTE, QUOTE, SPACE, DELIM>> >>
  /\ parser.state = CSV_STATE_FIELD_START
  /\ Len(parser.fields) = 1
  /\ parser.total_bytes_processed = 4

-----------------------------------------------------------------------------
(* C39: in the multithreaded chunking driver, for every file content and   *)
(* thread count, the chunks of the threads are consecutive and do not      *)
(* overlap, no chunk size is negative (actual_end - current_offset never   *)
(* wraps, also when a line is longer than file_size / num_threads), the    *)
(* chunk sizes sum to the file size, and every chunk but the first begins  *)
(* immediately after an LF byte.                                           *)

ChunkSizes == [k \in DOMAIN mt.thread_data |-> mt.thread_data[k].chunk_size]

ChunksAreConsecutive ==
  /\ \A k \in DOMAIN mt.thread_data :
       /\ mt.thread_data[k].start_offset = Sum(SubSeq(ChunkSizes, 1, k - 1))
       /\ mt.thread_data[k].start_offset + mt.thread_data[k].chunk_size <= mt.file_size
  /\ mt.i = mt.num_threads => Sum(ChunkSizes) = mt.file_size

BeginsAfterLF(c) == c.start_offset > 0 /\ mt.data[c.start_offset] = LF

C39_ChunksBeginAfterLF ==
  /\ ChunksAreConsecutive
  /\ \A k \in DOMAIN mt.thread_data :
       k > 1 => BeginsAfterLF(mt.thread_data[k])

\* ... every chunk but the first begins immediately after an LF byte, at
\* offset 0 (the chunks before it are empty) or, being empty, at the end of
\* the file.
C39_ChunksBeginAtLineStart ==
  /\ ChunksAreConsecutive
  /\ \A k \in DOMAIN mt.thread_data :
       k > 1 =>
         \/ BeginsAfterLF(mt.thread_data[k])
         \/ mt.thread_data[k].start_offset = 0
         \/ /\ mt.thread_data[k].start_offset = mt.file_size
            /\ mt.thread_data[k].chunk_size = 0

\* a line longer than file_size / num_threads: the second chunk is empty
C39_Witness ==
  /\ mt.data = <<"a", LF, "a", "a", "a", "a">>
  /\ mt.num_threads = 3
  /\ mt.i = 3
  /\ ChunkSizes = <<2, 0, 4>>

-----------------------------------------------------------------------------
(* C40: every block returned by csv_aligned_alloc(size, alignment), new or *)
(* taken from the recycling pool of the thread, has at least header +      *)
(* alignment padding + size usable bytes, for every sequence of            *)
(* allocations and frees, also when a smaller block was freed and a larger *)
(* request of the same size class follows.                                 *)

C40_BlocksHoldTheirSize ==
  \A ptr \in DOMAIN heap.blocks :
    heap.blocks[ptr].state = "live" =>
      heap.blocks[ptr].user + heap.blocks[ptr].size <= heap.blocks[ptr].capacity

====
